---- MODULE Spec2Model ----
(***************************************************************************)
(* Model of the workflow controller of the voice-controlled enrollment     *)
(* assistant (app/core/workflow_controller.py).                            *)
(*                                                                         *)
(* The controller runs on a single-threaded asyncio event loop.  A task    *)
(* runs without interruption until it awaits something that really         *)
(* suspends: a collaborator call (browser_service, email_service) or a     *)
(* coroutine listener.  The variable `running` holds the task that owns    *)
(* the loop (0 when every task is suspended or idle), so the steps of one  *)
(* task between two suspension points are never interleaved with another   *)
(* task's steps.                                                           *)
(***************************************************************************)
EXTENDS Integers, Sequences, FiniteSets, TLC

\* ------------------------------------------------------------- bounds
MaxTasks == 2        \* concurrent callers of the controller
MaxSessions == 2     \* sessions ever created (uuid4 values handed out)
MaxOps == 2          \* operations started in one behaviour, concurrent callers
MaxListeners == 1    \* register_event_listener calls, concurrent callers
SeqMaxOps == 2       \* operations started in one behaviour, one caller
SeqMaxListeners == 2 \* register_event_listener calls, one caller
MaxEmails == 2       \* distinct email ids the mail collaborator returns
MaxWarm == 3         \* commands already served when the behaviour starts
OverlapMaxListeners == 2 \* register_event_listener calls, overlapping notifications
MaxRequests == 103   \* record_request calls on the service's metrics

Tasks == 1..MaxTasks

\* ------------------------------------------------------------- values
NoneVal == 0         \* Python None (falsy) for the Optional[str] fields
DefaultStartTime == 0 \* datetime.now() evaluated once, when the class body runs

IDLE == "idle"
LISTENING == "listening"
PROCESSING_COMMAND == "processing_command"
AUTHENTICATING == "authenticating"
NAVIGATING == "navigating"
READING_EMAIL == "reading_email"
GENERATING_RESPONSE == "generating_response"
REVIEWING == "reviewing"
SUBMITTING == "submitting"
ERROR == "error"

WorkflowState ==
  {IDLE, LISTENING, PROCESSING_COMMAND, AUTHENTICATING, NAVIGATING,
   READING_EMAIL, GENERATING_RESPONSE, REVIEWING, SUBMITTING, ERROR}

\* A WorkflowEvent: the state entered and the message (timestamp and data
\* are not read by the controller).
WorkflowEvent(state, message) == [state |-> state, message |-> message]

\* WorkflowSession(session_id=...) with the dataclass defaults; __post_init__
\* replaces the None events by an empty list.
WorkflowSession(session_id) ==
  [session_id |-> session_id,
   browser_session_id |-> NoneVal,
   current_email_id |-> NoneVal,
   current_state |-> IDLE,
   draft_response |-> NoneVal,
   start_time |-> DefaultStartTime,
   events |-> <<>>]

\* A plausible slip: the event is recorded but current_state is not updated.
add_event_stale(session, state, message) ==
  [session EXCEPT !.events = Append(@, WorkflowEvent(state, message))]

\* A plausible slip: the newest event is put first.
add_event_newest_first(session, state, message) ==
  [session EXCEPT !.events = <<WorkflowEvent(state, message)>> \o @,
                  !.current_state = state]

\* WorkflowSession.add_event: append the event, then set current_state.
add_event(session, state, message) ==
  [session EXCEPT !.events = Append(@, WorkflowEvent(state, message)),
                  !.current_state = state]

\* ------------------------------------------------------------- commands
\* A command is the set of words of the utterance.  lower() folds case;
\* `in` is substring search, so a word holds every keyword it contains.
Keywords ==
  {"login", "log in", "inbox", "emails", "read", "email", "message",
   "generate", "respond", "reply", "submit", "send", "save", "draft"}

Vocabulary == Keywords \cup {"Login", "Slate", "hello"}

Lower(w) ==
  CASE w = "Login" -> "login"
    [] w = "Slate" -> "slate"
    [] OTHER -> w

Substrings(w) ==
  CASE w = "emails" -> {"emails", "email"}
    [] OTHER -> {w} \cap Keywords

\* kw in command.lower()
Has(command, kw) == \E w \in command : kw \in Substrings(Lower(w))

\* A plausible slip: the submit rule is tested before the read-email rule.
Classify_submit_first(command) ==
  IF Has(command, "login") \/ Has(command, "log in") THEN "login"
  ELSE IF Has(command, "inbox") \/ Has(command, "emails") THEN "inbox"
  ELSE IF Has(command, "submit") \/ Has(command, "send") THEN "submit"
  ELSE IF Has(command, "read") /\ (Has(command, "email") \/ Has(command, "message"))
    THEN "read_email"
  ELSE IF Has(command, "generate") \/ Has(command, "respond") \/ Has(command, "reply")
    THEN "generate"
  ELSE IF Has(command, "save") /\ Has(command, "draft") THEN "save_draft"
  ELSE "unknown"

\* The if/elif chain of _process_command: the handler of the first rule
\* that matches.
Classify(command) ==
  IF Has(command, "login") \/ Has(command, "log in") THEN "login"
  ELSE IF Has(command, "inbox") \/ Has(command, "emails") THEN "inbox"
  ELSE IF Has(command, "read") /\ (Has(command, "email") \/ Has(command, "message"))
    THEN "read_email"
  ELSE IF Has(command, "generate") \/ Has(command, "respond") \/ Has(command, "reply")
    THEN "generate"
  ELSE IF Has(command, "submit") \/ Has(command, "send") THEN "submit"
  ELSE IF Has(command, "save") /\ Has(command, "draft") THEN "save_draft"
  ELSE "unknown"

\* The commands the callers of the controller send in the concurrent model:
\* one per rule of the chain, and one that matches no rule.
Commands ==
  {{"login", "Slate"}, {"inbox"}, {"read", "email"}, {"generate"}, {"send"},
   {"save", "draft"}, {"hello"}}

\* ------------------------------------------------------------- state
VARIABLES
  sessions,         \* self.sessions: the registry's keys, in insertion order
  sess,             \* the WorkflowSession objects ever built, by session id
  event_listeners,  \* self.event_listeners
  notified,         \* every listener invocation so far, in order
  calls,            \* every collaborator invocation so far, in order
  task,             \* each caller's operation in progress
  running,          \* the task that owns the event loop, 0 if none
  nops,             \* operations started so far
  dcmd,             \* the command handed to the classifier (SpecDispatch)
  dres,             \* the handler the classifier chose (SpecDispatch)
  metrics           \* the ServiceMetrics of one service (SpecMetrics)

vars ==
  <<sessions, sess, event_listeners, notified, calls, task, running, nops,
    dcmd, dres, metrics>>

NoResult == [status |-> "none", message |-> "", session_id |-> NoneVal]
Result(status, message, session_id) ==
  [status |-> status, message |-> message, session_id |-> session_id]

\* What a caller is doing.  Beside the position in the operation (op, pc,
\* the session sid, the command, the handler chosen, the notification loop's
\* index ni, event ev and continuation ret, the pending result) a task keeps
\* what the operation has done (the states it appended in `mine`, its
\* collaborator calls in ncalls and the collaborator's answer in `outcome`,
\* whether it created its session in `fresh`, the snapshot a query returned
\* in `snap`)
\* and what it found when it started (the registry reg0, the non-IDLE
\* sessions act0, those of them in ERROR err0, the number of sessions built
\* nsess0, the session's fields
\* when the command was received in `pre`, its events then in `base`).
IdleTask ==
  [op |-> "none", pc |-> "idle", sid |-> NoneVal, arg |-> NoneVal, cmd |-> {},
   handler |-> "none", ni |-> 0, ev |-> [sid |-> NoneVal, idx |-> 0],
   ret |-> "none", result |-> NoResult, base |-> 0, mine |-> <<>>,
   ncalls |-> 0, callix |-> 0, outcome |-> "none", fresh |-> FALSE,
   found |-> FALSE, snap |-> NoneVal,
   reg0 |-> <<>>, act0 |-> <<>>, err0 |-> {}, nsess0 |-> 0,
   pre |-> [browser_session_id |-> NoneVal, current_email_id |-> NoneVal,
            draft_response |-> NoneVal, current_state |-> IDLE]]

\* The listeners that can be registered: a plain function, and a coroutine
\* function, which _notify_listeners awaits.
Callbacks == {"sync", "async"}
\* A plain function that raises each time it is called.
RaisingCallback == "raising"

\* The response times kept for the average.
MaxResponseTimes == 100
\* ServiceMetrics(service_name): the counters and the error fields at their
\* defaults.
ServiceMetrics ==
  [requests_total |-> 0, requests_success |-> 0, requests_error |-> 0,
   response_times |-> <<>>, last_error |-> NoneVal,
   last_error_time |-> NoneVal]

\* WorkflowController.__init__: no session, no listener.
Fresh ==
  /\ sessions = <<>>
  /\ sess = <<>>
  /\ event_listeners = <<>>
  /\ notified = <<>>
  /\ calls = <<>>
  /\ task = [t \in Tasks |-> IdleTask]
  /\ running = 0
  /\ nops = 0
  /\ dcmd = {}
  /\ dres = "none"
  /\ metrics = ServiceMetrics

\* ------------------------------------------------------------- helpers
Range(s) == {s[i] : i \in 1..Len(s)}
Registered(id) == id \in Range(sessions)
Remove(s, x) == SelectSeq(s, LAMBDA y : y # x)

\* A task may take a step when it owns the loop, or when nobody does.
CanRun(t) == running \in {0, t}
\* A new operation starts when the loop is free and the caller is not in one.
CanStart(t) ==
  /\ running = 0
  /\ task[t].pc = "idle"

\* The values of self.sessions that are not IDLE, in the registry's order.
ActiveSessions == SelectSeq(sessions, LAMBDA id : sess[id].current_state # IDLE)

\* The task record of an operation that starts now.
Begin(t, op) ==
  [IdleTask EXCEPT !.op = op, !.reg0 = sessions, !.act0 = ActiveSessions,
                   !.err0 = {id \in Range(sessions) :
                               sess[id].current_state = ERROR},
                   !.nsess0 = Len(sess)]

\* The task after a collaborator answered it.
Answered(t, outcome) == [task[t] EXCEPT !.outcome = outcome]

\* A plausible slip: the sessions share one events list (a mutable default
\* instead of the list that __post_init__ builds), so an event added to one
\* session shows in all of them.
Emit_shared_events(t, tk, id, s, state, message, retpc, res) ==
  /\ sess' = [i \in DOMAIN sess |->
       IF i = id THEN add_event(s, state, message)
       ELSE [sess[i] EXCEPT !.events = Append(@, WorkflowEvent(state, message))]]
  /\ task' = [task EXCEPT ![t] =
       [tk EXCEPT !.pc = "notify", !.ni = 1,
                  !.ev = [sid |-> id, idx |-> Len(s.events) + 1],
                  !.ret = retpc, !.result = res,
                  !.mine = Append(@, state)]]
  /\ running' = t

\* session.add_event(state, message) on the session object `s` (already
\* holding the handler's field updates), then
\* await self._notify_listeners(session.events[-1]); the operation goes on
\* at `retpc` with `res` as the result it will return.
Emit(t, tk, id, s, state, message, retpc, res) ==
  /\ sess' = [sess EXCEPT ![id] = add_event(s, state, message)]
  /\ task' = [task EXCEPT ![t] =
       [tk EXCEPT !.pc = "notify", !.ni = 1,
                  !.ev = [sid |-> id, idx |-> Len(s.events) + 1],
                  !.ret = retpc, !.result = res,
                  !.mine = Append(@, state)]]
  /\ running' = t

\* ------------------------------------------------------------- listeners
\* register_event_listener(callback): a plain method, it runs whenever the
\* loop is free.
register_event_listener(cb) ==
  /\ running = 0
  /\ event_listeners' = Append(event_listeners, cb)
  /\ UNCHANGED <<sessions, sess, notified, calls, task, running, nops, dcmd, dres, metrics>>

\* A plausible slip: the exception of a listener is not caught; it ends the
\* loop and the operation.
NotifyListener_uncaught(t) ==
  /\ CanRun(t)
  /\ task[t].pc = "notify"
  /\ task[t].ni <= Len(event_listeners)
  /\ notified' = Append(notified,
       [l |-> task[t].ni, cb |-> event_listeners[task[t].ni],
        sid |-> task[t].ev.sid, idx |-> task[t].ev.idx])
  /\ IF event_listeners[task[t].ni] = RaisingCallback
       THEN task' = [task EXCEPT ![t].pc = "done",
                       ![t].result = Result("fault", "exception", NoneVal)]
       ELSE task' = [task EXCEPT ![t].ni = @ + 1]
  /\ running' = IF event_listeners[task[t].ni] = "async" THEN 0 ELSE t
  /\ UNCHANGED <<sessions, sess, event_listeners, calls, nops, dcmd, dres, metrics>>

\* One iteration of the loop of _notify_listeners: the listener is invoked
\* with the event; a coroutine listener is awaited and may suspend the task;
\* an exception of the listener is caught and logged, and the loop goes on.
NotifyListener(t) ==
  /\ CanRun(t)
  /\ task[t].pc = "notify"
  /\ task[t].ni <= Len(event_listeners)
  /\ notified' = Append(notified,
       [l |-> task[t].ni, cb |-> event_listeners[task[t].ni],
        sid |-> task[t].ev.sid, idx |-> task[t].ev.idx])
  /\ task' = [task EXCEPT ![t].ni = @ + 1]
  /\ running' = IF event_listeners[task[t].ni] = "async" THEN 0 ELSE t
  /\ UNCHANGED <<sessions, sess, event_listeners, calls, nops, dcmd, dres, metrics>>

\* A plausible slip: the loop stops after the first listener.
NotifyDone_after_first(t) ==
  /\ CanRun(t)
  /\ task[t].pc = "notify"
  /\ task[t].ni > 1 \/ event_listeners = <<>>
  /\ task' = [task EXCEPT ![t].pc = task[t].ret]
  /\ running' = t
  /\ UNCHANGED <<sessions, sess, event_listeners, notified, calls, nops, dcmd, dres, metrics>>

\* A plausible slip: the notification is started in the background and
\* the operation goes on without waiting for it.
NotifyDone_background(t) ==
  /\ CanRun(t)
  /\ task[t].pc = "notify"
  /\ task' = [task EXCEPT ![t].pc = task[t].ret]
  /\ running' = t
  /\ UNCHANGED <<sessions, sess, event_listeners, notified, calls, nops, dcmd, dres, metrics>>

\* The loop of _notify_listeners is over: the operation goes on.
NotifyDone(t) ==
  /\ CanRun(t)
  /\ task[t].pc = "notify"
  /\ task[t].ni > Len(event_listeners)
  /\ task' = [task EXCEPT ![t].pc = task[t].ret]
  /\ running' = t
  /\ UNCHANGED <<sessions, sess, event_listeners, notified, calls, nops, dcmd, dres, metrics>>

\* The operation has returned: its caller takes the result, and the loop is
\* free for the next task.
caller_resumes(t) ==
  /\ running = t
  /\ task[t].pc = "done"
  /\ task' = [task EXCEPT ![t] = IdleTask]
  /\ running' = 0
  /\ UNCHANGED <<sessions, sess, event_listeners, notified, calls, nops, dcmd, dres, metrics>>

\* ------------------------------------------------------------- create_session
\* A caller invokes create_session().
CallCreateSession(t) ==
  /\ CanStart(t)
  /\ task' = [task EXCEPT ![t] = [Begin(t, "create") EXCEPT !.pc = "create"]]
  /\ running' = t
  /\ nops' = nops + 1
  /\ UNCHANGED <<sessions, sess, event_listeners, notified, calls, dcmd, dres, metrics>>

\* A plausible slip: the session is registered before its first event is
\* added, and the event is forgotten.
create_session_no_event(t) ==
  /\ running = t
  /\ task[t].pc = "create"
  /\ LET id == Len(sess) + 1
     IN /\ sess' = Append(sess, WorkflowSession(id))
        /\ sessions' = Append(sessions, id)
        /\ task' = [task EXCEPT ![t] =
             [@ EXCEPT !.pc = "notify", !.ni = 1, !.sid = id,
                       !.ev = [sid |-> id, idx |-> 1],
                       !.ret = "create_return", !.fresh = TRUE]]
  /\ UNCHANGED <<event_listeners, notified, calls, running, nops, dcmd, dres, metrics>>

\* create_session up to its await: a fresh id, the session with its first
\* event, the registration.
create_session(t) ==
  /\ running = t
  /\ task[t].pc = "create"
  /\ LET id == Len(sess) + 1
         s == add_event(WorkflowSession(id), LISTENING, "Session created, listening for commands")
     IN /\ sess' = Append(sess, s)
        /\ sessions' = Append(sessions, id)
        /\ task' = [task EXCEPT ![t] =
             [@ EXCEPT !.pc = "notify", !.ni = 1, !.sid = id,
                       !.ev = [sid |-> id, idx |-> 1],
                       !.ret = "create_return",
                       !.mine = Append(@, LISTENING),
                       !.fresh = TRUE]]
  /\ UNCHANGED <<event_listeners, notified, calls, running, nops, dcmd, dres, metrics>>

\* create_session returns {"session_id", "status": "created"}; inside
\* process_voice_command the caller then looks the session up in the
\* registry; _handle_voice_event drops the result.
create_session_return(t) ==
  /\ running = t
  /\ task[t].pc = "create_return"
  /\ IF task[t].op = "create"
       THEN task' = [task EXCEPT ![t].pc = "done",
                       ![t].result = Result("created", "", task[t].sid)]
       ELSE IF task[t].op = "wake"
         THEN task' = [task EXCEPT ![t].pc = "done"]
       ELSE IF Registered(task[t].sid)
         THEN task' = [task EXCEPT ![t].pc = "process"]
         ELSE task' = [task EXCEPT ![t].pc = "done",
                         ![t].result = Result("fault", "KeyError", NoneVal)]
  /\ UNCHANGED <<sessions, sess, event_listeners, notified, calls, running,
                 nops, dcmd, dres, metrics>>

\* ------------------------------------------------------------- end_session
\* end_session on a registered id, up to its first await: the browser
\* session, when there is one, is ended first.
end_session_begin(t, id) ==
  IF sess[id].browser_session_id # NoneVal
    THEN /\ calls' = Append(calls,
              [fn |-> "manage_session_end", sid |-> id,
               handle |-> sess[id].browser_session_id,
               email |-> NoneVal, text |-> NoneVal, send |-> FALSE])
         /\ task' = [task EXCEPT ![t] =
              [Begin(t, "end") EXCEPT !.pc = "end_wait", !.arg = id,
                 !.sid = id, !.found = TRUE, !.ncalls = 1]]
         /\ running' = 0
    ELSE /\ task' = [task EXCEPT ![t] =
              [Begin(t, "end") EXCEPT !.pc = "end_idle", !.arg = id,
                 !.sid = id, !.found = TRUE]]
         /\ running' = t
         /\ UNCHANGED calls

\* A plausible slip: ending an id that is not registered is reported as done.
end_session_idempotent(t, id) ==
  /\ CanStart(t)
  /\ nops' = nops + 1
  /\ IF ~Registered(id)
       THEN /\ task' = [task EXCEPT ![t] =
                 [Begin(t, "end") EXCEPT !.pc = "done", !.arg = id,
                    !.result = Result("ended", "", id)]]
            /\ running' = t
            /\ UNCHANGED calls
       ELSE end_session_begin(t, id)
  /\ UNCHANGED <<sessions, sess, event_listeners, notified, dcmd, dres, metrics>>

\* end_session(session_id) up to its first await.
end_session(t, id) ==
  /\ CanStart(t)
  /\ nops' = nops + 1
  /\ IF ~Registered(id)
       THEN /\ task' = [task EXCEPT ![t] =
                 [Begin(t, "end") EXCEPT !.pc = "done", !.arg = id,
                    !.result = Result("error", "Session not found", NoneVal)]]
            /\ running' = t
            /\ UNCHANGED calls
       ELSE end_session_begin(t, id)
  /\ UNCHANGED <<sessions, sess, event_listeners, notified, dcmd, dres, metrics>>

\* A plausible slip: an exception of the browser driver ends end_session.
end_session_browser_return_propagates(t, raised) ==
  /\ running = 0
  /\ task[t].pc = "end_wait"
  /\ task' = [task EXCEPT
       ![t].pc = IF raised THEN "done" ELSE "end_idle",
       ![t].outcome = IF raised THEN "raise" ELSE "success",
       ![t].result = IF raised THEN Result("fault", "exception", NoneVal)
                     ELSE @]
  /\ running' = t
  /\ UNCHANGED <<sessions, sess, event_listeners, notified, calls, nops, dcmd, dres, metrics>>

\* browser_service.manage_session(action="end") returns or raises; the
\* exception is logged and end_session goes on either way.
end_session_browser_return(t, raised) ==
  /\ running = 0
  /\ task[t].pc = "end_wait"
  /\ task' = [task EXCEPT ![t].pc = "end_idle",
                ![t].outcome = IF raised THEN "raise" ELSE "success"]
  /\ running' = t
  /\ UNCHANGED <<sessions, sess, event_listeners, notified, calls, nops, dcmd, dres, metrics>>

\* The final event of the session, and its notification.
end_session_idle(t) ==
  /\ running = t
  /\ task[t].pc = "end_idle"
  /\ Emit(t, task[t], task[t].sid, sess[task[t].sid], IDLE, "Session ended",
          "end_del", task[t].result)
  /\ UNCHANGED <<sessions, event_listeners, notified, calls, nops, dcmd, dres, metrics>>

\* A plausible slip: the session is reported ended but stays registered.
end_session_del_kept(t) ==
  /\ running = t
  /\ task[t].pc = "end_del"
  /\ task' = [task EXCEPT ![t].pc = "done",
                ![t].result = Result("ended", "", task[t].sid)]
  /\ UNCHANGED <<sessions, sess, event_listeners, notified, calls, running,
                 nops, dcmd, dres, metrics>>

\* del self.sessions[session_id] and the return; the del raises KeyError
\* when the key is gone.
end_session_del(t) ==
  /\ running = t
  /\ task[t].pc = "end_del"
  /\ IF Registered(task[t].sid)
       THEN /\ sessions' = Remove(sessions, task[t].sid)
            /\ task' = [task EXCEPT ![t].pc = "done",
                          ![t].result = Result("ended", "", task[t].sid)]
       ELSE /\ task' = [task EXCEPT ![t].pc = "done",
                          ![t].result = Result("fault", "KeyError", NoneVal)]
            /\ UNCHANGED sessions
  /\ UNCHANGED <<sess, event_listeners, notified, calls, running, nops, dcmd, dres, metrics>>

\* ------------------------------------------------------------- snapshots
\* A plausible slip: has_draft is taken from the selected email.
get_session_draft_by_email(id) ==
  IF ~Registered(id) THEN NoneVal
  ELSE [session_id |-> sess[id].session_id,
        browser_session_id |-> sess[id].browser_session_id,
        current_state |-> sess[id].current_state,
        current_email_id |-> sess[id].current_email_id,
        has_draft |-> sess[id].current_email_id # NoneVal,
        events |-> Len(sess[id].events)]

\* get_session(session_id): None for an unknown id, else the projection of
\* the session (start_time and last_event left out).
get_session(id) ==
  IF ~Registered(id) THEN NoneVal
  ELSE [session_id |-> sess[id].session_id,
        browser_session_id |-> sess[id].browser_session_id,
        current_state |-> sess[id].current_state,
        current_email_id |-> sess[id].current_email_id,
        has_draft |-> sess[id].draft_response # NoneVal,
        events |-> Len(sess[id].events)]

\* A plausible slip: the snapshots come newest first.
get_all_sessions_newest_first ==
  [i \in 1..Len(sessions) |-> get_session(sessions[Len(sessions) + 1 - i])]

\* get_all_sessions(): one snapshot per key of the registry, in its order.
get_all_sessions == [i \in 1..Len(sessions) |-> get_session(sessions[i])]

\* A caller awaits get_session(session_id): the coroutine never suspends.
CallGetSession(t, id) ==
  /\ CanStart(t)
  /\ nops' = nops + 1
  /\ task' = [task EXCEPT ![t] =
       [Begin(t, "get") EXCEPT !.pc = "done", !.arg = id,
                               !.snap = get_session(id)]]
  /\ running' = t
  /\ UNCHANGED <<sessions, sess, event_listeners, notified, calls, dcmd, dres, metrics>>

\* A caller awaits get_all_sessions(): it awaits get_session for each key,
\* and none of these suspends.
CallGetAllSessions(t) ==
  /\ CanStart(t)
  /\ nops' = nops + 1
  /\ task' = [task EXCEPT ![t] =
       [Begin(t, "get_all") EXCEPT !.pc = "done", !.snap = get_all_sessions]]
  /\ running' = t
  /\ UNCHANGED <<sessions, sess, event_listeners, notified, calls, dcmd, dres, metrics>>

\* ------------------------------------------------------------- active session
\* Where sorted() puts `id` in a list already sorted by start_time,
\* descending: after every element whose key is not smaller (the sort is
\* stable, also with reverse=True).
RECURSIVE InsertByStartTime(_, _)
InsertByStartTime(sorted, id) ==
  IF sorted = <<>> THEN <<id>>
  ELSE IF sess[Head(sorted)].start_time >= sess[id].start_time
    THEN <<Head(sorted)>> \o InsertByStartTime(Tail(sorted), id)
    ELSE <<id>> \o sorted

\* sorted(active_sessions, key=lambda s: s.start_time, reverse=True)
RECURSIVE SortedByStartTime(_)
SortedByStartTime(seq) ==
  IF seq = <<>> THEN <<>>
  ELSE InsertByStartTime(SortedByStartTime(SubSeq(seq, 1, Len(seq) - 1)),
                         seq[Len(seq)])

\* A plausible slip: a session in ERROR is not taken as active either.
GetActiveSession_skips_error ==
  LET live == SelectSeq(sessions,
                LAMBDA id : sess[id].current_state \notin {IDLE, ERROR})
  IN IF live = <<>> THEN NoneVal ELSE SortedByStartTime(live)[1]

\* _get_active_session: the first of the non-IDLE sessions sorted by
\* start_time, most recent first; None when there is none.
GetActiveSession ==
  IF sessions = <<>> THEN NoneVal
  ELSE IF ActiveSessions = <<>> THEN NoneVal
  ELSE SortedByStartTime(ActiveSessions)[1]

\* ------------------------------------------------------------- commands
\* A collaborator invocation: the call is logged with its arguments and the
\* task is suspended until the collaborator answers.
Invoke(t, fn, handle, email, text, send, waitpc) ==
  /\ calls' = Append(calls,
       [fn |-> fn, sid |-> task[t].sid, handle |-> handle, email |-> email,
        text |-> text, send |-> send])
  /\ task' = [task EXCEPT ![t].pc = waitpc, ![t].ncalls = @ + 1,
                          ![t].callix = Len(calls) + 1]
  /\ running' = 0

\* A plausible slip: the call yields the loop between the check for an
\* active session and the creation of one.
process_voice_command_yields(t, command) ==
  /\ CanStart(t)
  /\ nops' = nops + 1
  /\ IF GetActiveSession = NoneVal
       THEN /\ running' = 0
            /\ task' = [task EXCEPT ![t] =
                 [Begin(t, "command") EXCEPT !.pc = "create", !.cmd = command]]
       ELSE /\ running' = t
            /\ task' = [task EXCEPT ![t] =
                 [Begin(t, "command") EXCEPT !.pc = "process", !.cmd = command,
                    !.sid = GetActiveSession]]
  /\ UNCHANGED <<sessions, sess, event_listeners, notified, calls, dcmd, dres, metrics>>

\* process_voice_command(command) up to the dispatch: the active session,
\* or a new one when there is none.
process_voice_command(t, command) ==
  /\ CanStart(t)
  /\ nops' = nops + 1
  /\ running' = t
  /\ IF GetActiveSession = NoneVal
       THEN task' = [task EXCEPT ![t] =
              [Begin(t, "command") EXCEPT !.pc = "create", !.cmd = command]]
       ELSE task' = [task EXCEPT ![t] =
              [Begin(t, "command") EXCEPT !.pc = "process", !.cmd = command,
                 !.sid = GetActiveSession]]
  /\ UNCHANGED <<sessions, sess, event_listeners, notified, calls, dcmd, dres, metrics>>

VoiceEvents == {"wake_word_detected", "command_detected", "status"}
VoiceCommands == {{"login", "Slate"}, {"hello"}}

\* A plausible slip: a command heard with no active session makes one, as
\* process_voice_command does.
handle_voice_event_creates(t, event_type, command) ==
  /\ CanStart(t)
  /\ nops' = nops + 1
  /\ running' = t
  /\ task' = [task EXCEPT ![t] =
       CASE event_type = "wake_word_detected" ->
              [Begin(t, "wake") EXCEPT !.pc = "create"]
         [] event_type = "command_detected" ->
              IF GetActiveSession # NoneVal
                THEN [Begin(t, "voice_command") EXCEPT !.pc = "process",
                        !.cmd = command, !.sid = GetActiveSession]
                ELSE [Begin(t, "voice_command") EXCEPT !.pc = "create",
                        !.cmd = command]
         [] OTHER -> [Begin(t, "voice_other") EXCEPT !.pc = "done"]]
  /\ UNCHANGED <<sessions, sess, event_listeners, notified, calls, dcmd, dres, metrics>>

\* _handle_voice_event(event): a wake word creates a session; a command goes
\* to the active session, and is only logged when there is none; any other
\* event is ignored.
handle_voice_event(t, event_type, command) ==
  /\ CanStart(t)
  /\ nops' = nops + 1
  /\ running' = t
  /\ task' = [task EXCEPT ![t] =
       CASE event_type = "wake_word_detected" ->
              [Begin(t, "wake") EXCEPT !.pc = "create"]
         [] event_type = "command_detected" ->
              IF GetActiveSession # NoneVal
                THEN [Begin(t, "voice_command") EXCEPT !.pc = "process",
                        !.cmd = command, !.sid = GetActiveSession]
                ELSE [Begin(t, "voice_command") EXCEPT !.pc = "done",
                        !.cmd = command]
         [] OTHER -> [Begin(t, "voice_other") EXCEPT !.pc = "done"]]
  /\ UNCHANGED <<sessions, sess, event_listeners, notified, calls, dcmd, dres, metrics>>

\* A plausible slip: a session in ERROR takes no more commands.
process_command_rejects_error(t) ==
  /\ running = t
  /\ task[t].pc = "process"
  /\ LET tk == [task[t] EXCEPT !.base = Len(sess[task[t].sid].events),
                               !.pre = [f \in DOMAIN IdleTask.pre |->
                                         sess[task[t].sid][f]]]
     IN IF sess[task[t].sid].current_state = ERROR
          THEN Emit(t, tk, task[t].sid, sess[task[t].sid], ERROR,
                    "Session in error", "return",
                    Result("error", "Session in error", NoneVal))
          ELSE Emit(t, tk, task[t].sid, sess[task[t].sid], PROCESSING_COMMAND,
                    "Processing command", "dispatch", task[t].result)
  /\ UNCHANGED <<sessions, event_listeners, notified, calls, nops, dcmd, dres, metrics>>

\* _process_command, first part: the PROCESSING_COMMAND event.
process_command(t) ==
  /\ running = t
  /\ task[t].pc = "process"
  /\ Emit(t, [task[t] EXCEPT !.base = Len(sess[task[t].sid].events),
                              !.pre = [f \in DOMAIN IdleTask.pre |->
                                        sess[task[t].sid][f]]],
          task[t].sid, sess[task[t].sid], PROCESSING_COMMAND,
          "Processing command", "dispatch", task[t].result)
  /\ UNCHANGED <<sessions, event_listeners, notified, calls, nops, dcmd, dres, metrics>>

\* _process_command, second part: the keyword chain picks the handler.
dispatch(t) ==
  /\ running = t
  /\ task[t].pc = "dispatch"
  /\ LET h == Classify(task[t].cmd)
     IN task' = [task EXCEPT ![t].handler = h,
                   ![t].pc = IF h = "save_draft" THEN "submit" ELSE h]
  /\ UNCHANGED <<sessions, sess, event_listeners, notified, calls, running,
                 nops, dcmd, dres, metrics>>

\* A plausible slip: an unknown command is answered without an event.
unknown_command_silent(t) ==
  /\ running = t
  /\ task[t].pc = "unknown"
  /\ task' = [task EXCEPT ![t].pc = "return",
                ![t].result = Result("error", "Unknown command", NoneVal)]
  /\ UNCHANGED <<sessions, sess, event_listeners, notified, calls, running,
                 nops, dcmd, dres, metrics>>

\* A plausible slip: an unknown command is answered from LISTENING.
unknown_command_keeps_listening(t) ==
  /\ running = t
  /\ task[t].pc = "unknown"
  /\ Emit(t, task[t], task[t].sid, sess[task[t].sid], LISTENING,
          "Unknown command", "return",
          Result("error", "Unknown command", NoneVal))
  /\ UNCHANGED <<sessions, event_listeners, notified, calls, nops, dcmd, dres, metrics>>

\* The unknown-command branch of _process_command.
unknown_command(t) ==
  /\ running = t
  /\ task[t].pc = "unknown"
  /\ Emit(t, task[t], task[t].sid, sess[task[t].sid], ERROR, "Unknown command",
          "return", Result("error", "Unknown command", NoneVal))
  /\ UNCHANGED <<sessions, event_listeners, notified, calls, nops, dcmd, dres, metrics>>

\* The handler returns its result to the caller of process_voice_command;
\* _handle_voice_event drops it.
command_return(t) ==
  /\ running = t
  /\ task[t].pc = "return"
  /\ task' = [task EXCEPT ![t].pc = "done",
                ![t].result = IF task[t].op = "voice_command"
                                THEN NoResult ELSE @]
  /\ UNCHANGED <<sessions, sess, event_listeners, notified, calls, running,
                 nops, dcmd, dres, metrics>>

\* ------------------------------------------------------------- login
\* _handle_login_command: the AUTHENTICATING event.
handle_login_command(t) ==
  /\ running = t
  /\ task[t].pc = "login"
  /\ Emit(t, task[t], task[t].sid, sess[task[t].sid], AUTHENTICATING,
          "Authenticating to Slate CRM", "login_call", task[t].result)
  /\ UNCHANGED <<sessions, event_listeners, notified, calls, nops, dcmd, dres, metrics>>

\* await browser_service.login_to_crm(...)
login_call(t) ==
  /\ running = t
  /\ task[t].pc = "login_call"
  /\ Invoke(t, "login_to_crm", NoneVal, NoneVal, NoneVal, FALSE, "login_wait")
  /\ UNCHANGED <<sessions, sess, event_listeners, notified, nops, dcmd, dres, metrics>>

\* A plausible slip: the browser handle is not stored on success.
login_return_no_handle(t, outcome) ==
  /\ running = 0
  /\ task[t].pc = "login_wait"
  /\ LET id == task[t].sid
     IN CASE outcome = "success" ->
               Emit(t, Answered(t, outcome), id, sess[id], LISTENING,
                    "Authentication successful, listening for next command", "return",
                    Result("success", "Authentication successful", NoneVal))
          [] outcome = "failure" ->
               Emit(t, Answered(t, outcome), id, sess[id], ERROR, "Authentication failed",
                    "return", Result("error", "Authentication failed", NoneVal))
          [] OTHER ->
               Emit(t, Answered(t, outcome), id, sess[id], ERROR, "Error during authentication",
                    "return", Result("error", "exception", NoneVal))
  /\ UNCHANGED <<sessions, event_listeners, notified, calls, nops, dcmd, dres, metrics>>

\* A plausible slip: a login that does not succeed drops the stored handle.
login_return_clears_handle(t, outcome) ==
  /\ running = 0
  /\ task[t].pc = "login_wait"
  /\ LET id == task[t].sid
         out == [sess[id] EXCEPT !.browser_session_id = NoneVal]
     IN CASE outcome = "success" ->
               Emit(t, Answered(t, outcome), id,
                    [sess[id] EXCEPT !.browser_session_id = task[t].callix],
                    LISTENING, "Authentication successful, listening for next command", "return",
                    Result("success", "Authentication successful", NoneVal))
          [] outcome = "failure" ->
               Emit(t, Answered(t, outcome), id, out, ERROR, "Authentication failed",
                    "return", Result("error", "Authentication failed", NoneVal))
          [] OTHER ->
               Emit(t, Answered(t, outcome), id, out, ERROR, "Error during authentication",
                    "return", Result("error", "exception", NoneVal))
  /\ UNCHANGED <<sessions, event_listeners, notified, calls, nops, dcmd, dres, metrics>>

\* login_to_crm answers: success stores the browser handle (the handle of
\* the n-th login call is n) and goes back to LISTENING; a failure result
\* and a raised exception end in ERROR.
login_return(t, outcome) ==
  /\ running = 0
  /\ task[t].pc = "login_wait"
  /\ LET id == task[t].sid
     IN CASE outcome = "success" ->
               Emit(t, Answered(t, outcome), id,
                    [sess[id] EXCEPT !.browser_session_id = task[t].callix],
                    LISTENING, "Authentication successful, listening for next command", "return",
                    Result("success", "Authentication successful", NoneVal))
          [] outcome = "failure" ->
               Emit(t, Answered(t, outcome), id, sess[id], ERROR, "Authentication failed",
                    "return", Result("error", "Authentication failed", NoneVal))
          [] OTHER ->
               Emit(t, Answered(t, outcome), id, sess[id], ERROR, "Error during authentication",
                    "return", Result("error", "exception", NoneVal))
  /\ UNCHANGED <<sessions, event_listeners, notified, calls, nops, dcmd, dres, metrics>>

\* ------------------------------------------------------------- inbox
\* _handle_inbox_command up to the collaborator call.
handle_inbox_command(t) ==
  /\ running = t
  /\ task[t].pc = "inbox"
  /\ LET id == task[t].sid
     IN IF sess[id].browser_session_id = NoneVal
          THEN Emit(t, task[t], id, sess[id], ERROR,
                    "Cannot navigate to inbox: Not authenticated", "return",
                    Result("error", "Not authenticated", NoneVal))
          ELSE Emit(t, task[t], id, sess[id], NAVIGATING, "Navigating to inbox",
                    "inbox_call", task[t].result)
  /\ UNCHANGED <<sessions, event_listeners, notified, calls, nops, dcmd, dres, metrics>>

\* await browser_service.navigate_to_inbox(session_id=...)
inbox_call(t) ==
  /\ running = t
  /\ task[t].pc = "inbox_call"
  /\ Invoke(t, "navigate_to_inbox", sess[task[t].sid].browser_session_id,
            NoneVal, NoneVal, FALSE, "inbox_wait")
  /\ UNCHANGED <<sessions, sess, event_listeners, notified, nops, dcmd, dres, metrics>>

\* A plausible slip: a navigation that does not succeed drops the browser
\* handle, as if the browser session were lost.
inbox_return_drops_handle(t, outcome) ==
  /\ running = 0
  /\ task[t].pc = "inbox_wait"
  /\ LET id == task[t].sid
         out == [sess[id] EXCEPT !.browser_session_id = NoneVal]
     IN CASE outcome = "success" ->
               Emit(t, Answered(t, outcome), id, sess[id], LISTENING, "Navigation successful, listening for next command",
                    "return", Result("success", "Navigation successful", NoneVal))
          [] outcome = "failure" ->
               Emit(t, Answered(t, outcome), id, out, ERROR, "Navigation failed",
                    "return", Result("error", "Navigation failed", NoneVal))
          [] OTHER ->
               Emit(t, Answered(t, outcome), id, out, ERROR, "Error during navigation",
                    "return", Result("error", "exception", NoneVal))
  /\ UNCHANGED <<sessions, event_listeners, notified, calls, nops, dcmd, dres, metrics>>

\* A plausible slip: a navigation that raised is tried once more.
inbox_return_retries(t, outcome) ==
  /\ running = 0
  /\ task[t].pc = "inbox_wait"
  /\ LET id == task[t].sid
     IN CASE outcome = "success" ->
               /\ Emit(t, Answered(t, outcome), id, sess[id], LISTENING, "Navigation successful, listening for next command",
                       "return", Result("success", "Navigation successful", NoneVal))
               /\ UNCHANGED calls
          [] outcome = "failure" ->
               /\ Emit(t, Answered(t, outcome), id, sess[id], ERROR, "Navigation failed",
                       "return", Result("error", "Navigation failed", NoneVal))
               /\ UNCHANGED calls
          [] OTHER ->
               IF task[t].ncalls < 2
                 THEN /\ Invoke(t, "navigate_to_inbox", sess[id].browser_session_id,
                                NoneVal, NoneVal, FALSE, "inbox_wait")
                      /\ UNCHANGED sess
                 ELSE /\ Emit(t, Answered(t, outcome), id, sess[id], ERROR, "Error during navigation",
                              "return", Result("error", "exception", NoneVal))
                      /\ UNCHANGED calls
  /\ UNCHANGED <<sessions, event_listeners, notified, nops, dcmd, dres, metrics>>

\* navigate_to_inbox answers.
inbox_return(t, outcome) ==
  /\ running = 0
  /\ task[t].pc = "inbox_wait"
  /\ LET id == task[t].sid
     IN CASE outcome = "success" ->
               Emit(t, Answered(t, outcome), id, sess[id], LISTENING, "Navigation successful, listening for next command",
                    "return", Result("success", "Navigation successful", NoneVal))
          [] outcome = "failure" ->
               Emit(t, Answered(t, outcome), id, sess[id], ERROR, "Navigation failed",
                    "return", Result("error", "Navigation failed", NoneVal))
          [] OTHER ->
               Emit(t, Answered(t, outcome), id, sess[id], ERROR, "Error during navigation",
                    "return", Result("error", "exception", NoneVal))
  /\ UNCHANGED <<sessions, event_listeners, notified, calls, nops, dcmd, dres, metrics>>

\* ------------------------------------------------------------- read email
\* A plausible slip: reading an email does not ask for a browser handle.
handle_read_email_command_no_auth_check(t) ==
  /\ running = t
  /\ task[t].pc = "read_email"
  /\ Emit(t, task[t], task[t].sid, sess[task[t].sid], READING_EMAIL,
          "Reading email", "read_call", task[t].result)
  /\ UNCHANGED <<sessions, event_listeners, notified, calls, nops, dcmd, dres, metrics>>

\* _handle_read_email_command up to the collaborator call.
handle_read_email_command(t) ==
  /\ running = t
  /\ task[t].pc = "read_email"
  /\ LET id == task[t].sid
     IN IF sess[id].browser_session_id = NoneVal
          THEN Emit(t, task[t], id, sess[id], ERROR,
                    "Cannot read email: Not authenticated", "return",
                    Result("error", "Not authenticated", NoneVal))
          ELSE Emit(t, task[t], id, sess[id], READING_EMAIL, "Reading email",
                    "read_call", task[t].result)
  /\ UNCHANGED <<sessions, event_listeners, notified, calls, nops, dcmd, dres, metrics>>

\* await email_service.process_email(session_id=..., email_id=None)
read_call(t) ==
  /\ running = t
  /\ task[t].pc = "read_call"
  /\ Invoke(t, "process_email", sess[task[t].sid].browser_session_id,
            NoneVal, NoneVal, FALSE, "read_wait")
  /\ UNCHANGED <<sessions, sess, event_listeners, notified, nops, dcmd, dres, metrics>>

\* A plausible slip: a read that fails resets the current email.
read_return_resets_email(t, outcome, email) ==
  /\ running = 0
  /\ task[t].pc = "read_wait"
  /\ LET id == task[t].sid
     IN IF outcome = "success"
          THEN Emit(t, Answered(t, outcome), id,
                    [sess[id] EXCEPT !.current_email_id = email],
                    LISTENING, "Email read", "return",
                    Result("success", "Email read successfully", NoneVal))
          ELSE Emit(t, Answered(t, outcome), id,
                    [sess[id] EXCEPT !.current_email_id = NoneVal],
                    ERROR, "Error reading email",
                    "return", Result("error", "exception", NoneVal))
  /\ UNCHANGED <<sessions, event_listeners, notified, calls, nops, dcmd, dres, metrics>>

\* process_email answers with the first email of the inbox, or raises.  Its
\* result has no status: an answer that is not a success carries no email
\* record, and result["email"] then raises KeyError, caught like any fault.
read_return(t, outcome, email) ==
  /\ running = 0
  /\ task[t].pc = "read_wait"
  /\ LET id == task[t].sid
     IN IF outcome = "success"
          THEN Emit(t, Answered(t, outcome), id,
                    [sess[id] EXCEPT !.current_email_id = email],
                    LISTENING, "Email read", "return",
                    Result("success", "Email read successfully", NoneVal))
          ELSE Emit(t, Answered(t, outcome), id, sess[id], ERROR, "Error reading email",
                    "return", Result("error", "exception", NoneVal))
  /\ UNCHANGED <<sessions, event_listeners, notified, calls, nops, dcmd, dres, metrics>>

\* ------------------------------------------------------------- generate
\* A plausible slip: the precondition tests the browser handle, not the
\* selected email.
handle_generate_response_command_wrong_check(t) ==
  /\ running = t
  /\ task[t].pc = "generate"
  /\ LET id == task[t].sid
     IN IF sess[id].browser_session_id = NoneVal
          THEN Emit(t, task[t], id, sess[id], ERROR,
                    "Cannot generate response: No email selected", "return",
                    Result("error", "No email selected", NoneVal))
          ELSE Emit(t, task[t], id, sess[id], GENERATING_RESPONSE,
                    "Generating email response", "generate_call", task[t].result)
  /\ UNCHANGED <<sessions, event_listeners, notified, calls, nops, dcmd, dres, metrics>>

\* _handle_generate_response_command up to the collaborator call.
handle_generate_response_command(t) ==
  /\ running = t
  /\ task[t].pc = "generate"
  /\ LET id == task[t].sid
     IN IF sess[id].current_email_id = NoneVal
          THEN Emit(t, task[t], id, sess[id], ERROR,
                    "Cannot generate response: No email selected", "return",
                    Result("error", "No email selected", NoneVal))
          ELSE Emit(t, task[t], id, sess[id], GENERATING_RESPONSE,
                    "Generating email response", "generate_call", task[t].result)
  /\ UNCHANGED <<sessions, event_listeners, notified, calls, nops, dcmd, dres, metrics>>

\* await email_service.process_email(session_id=..., email_id=current_email_id)
generate_call(t) ==
  /\ running = t
  /\ task[t].pc = "generate_call"
  /\ Invoke(t, "process_email", sess[task[t].sid].browser_session_id,
            sess[task[t].sid].current_email_id, NoneVal, FALSE, "generate_wait")
  /\ UNCHANGED <<sessions, sess, event_listeners, notified, nops, dcmd, dres, metrics>>

\* process_email answers with the suggested response for the email it was
\* asked about (the draft for email e is written e), or raises; an answer
\* without "suggested_response" raises KeyError, caught like any fault.
generate_return(t, outcome) ==
  /\ running = 0
  /\ task[t].pc = "generate_wait"
  /\ LET id == task[t].sid
     IN IF outcome = "success"
          THEN Emit(t, Answered(t, outcome), id,
                    [sess[id] EXCEPT !.draft_response = calls[task[t].callix].email],
                    REVIEWING, "Response generated, ready for review", "return",
                    Result("success", "Response generated", NoneVal))
          ELSE Emit(t, Answered(t, outcome), id, sess[id], ERROR, "Error generating response",
                    "return", Result("error", "exception", NoneVal))
  /\ UNCHANGED <<sessions, event_listeners, notified, calls, nops, dcmd, dres, metrics>>

\* ------------------------------------------------------------- submit
\* A plausible slip: the draft is not looked at before submitting.
handle_submit_response_command_no_draft_check(t) ==
  /\ running = t
  /\ task[t].pc = "submit"
  /\ LET id == task[t].sid
     IN IF sess[id].current_email_id = NoneVal
          THEN Emit(t, task[t], id, sess[id], ERROR,
                    "Cannot submit response: No email selected", "return",
                    Result("error", "No email selected", NoneVal))
          ELSE Emit(t, task[t], id, sess[id], SUBMITTING, "Submitting response",
                    "submit_call", task[t].result)
  /\ UNCHANGED <<sessions, event_listeners, notified, calls, nops, dcmd, dres, metrics>>

\* _handle_submit_response_command(send) up to the collaborator call; send is
\* True for the submit rule and False for the save-draft rule.
handle_submit_response_command(t) ==
  /\ running = t
  /\ task[t].pc = "submit"
  /\ LET id == task[t].sid
     IN IF sess[id].current_email_id = NoneVal
          THEN Emit(t, task[t], id, sess[id], ERROR,
                    "Cannot submit response: No email selected", "return",
                    Result("error", "No email selected", NoneVal))
          ELSE IF sess[id].draft_response = NoneVal
            THEN Emit(t, task[t], id, sess[id], ERROR,
                      "Cannot submit response: No draft response created", "return",
                      Result("error", "No draft response created", NoneVal))
            ELSE Emit(t, task[t], id, sess[id], SUBMITTING, "Submitting response",
                      "submit_call", task[t].result)
  /\ UNCHANGED <<sessions, event_listeners, notified, calls, nops, dcmd, dres, metrics>>

\* await email_service.submit_draft(email_id, session_id, response_text, send)
submit_call(t) ==
  /\ running = t
  /\ task[t].pc = "submit_call"
  /\ Invoke(t, "submit_draft", sess[task[t].sid].browser_session_id,
            sess[task[t].sid].current_email_id, sess[task[t].sid].draft_response,
            task[t].handler = "submit", "submit_wait")
  /\ UNCHANGED <<sessions, sess, event_listeners, notified, nops, dcmd, dres, metrics>>

\* A plausible slip: the current email and the draft are cleared in a
\* finally clause, so also when submit_draft raised.
submit_return_clears_on_error(t, outcome) ==
  /\ running = 0
  /\ task[t].pc = "submit_wait"
  /\ LET id == task[t].sid
     IN IF outcome \in {"success", "failure"}
          THEN Emit(t, Answered(t, outcome), id, sess[id], LISTENING,
                    "Response submitted successfully", "submit_clear",
                    Result("success", "Response submitted successfully", NoneVal))
          ELSE Emit(t, Answered(t, outcome), id,
                    [sess[id] EXCEPT !.current_email_id = NoneVal,
                                     !.draft_response = NoneVal],
                    ERROR, "Error submitting response",
                    "return", Result("error", "exception", NoneVal))
  /\ UNCHANGED <<sessions, event_listeners, notified, calls, nops, dcmd, dres, metrics>>

\* submit_draft answers: whatever result it returns is taken as a success
\* (the result is not inspected); an exception ends in ERROR.
submit_return(t, outcome) ==
  /\ running = 0
  /\ task[t].pc = "submit_wait"
  /\ LET id == task[t].sid
     IN IF outcome \in {"success", "failure"}
          THEN Emit(t, Answered(t, outcome), id, sess[id], LISTENING,
                    "Response submitted successfully", "submit_clear",
                    Result("success", "Response submitted successfully", NoneVal))
          ELSE Emit(t, Answered(t, outcome), id, sess[id], ERROR, "Error submitting response",
                    "return", Result("error", "exception", NoneVal))
  /\ UNCHANGED <<sessions, event_listeners, notified, calls, nops, dcmd, dres, metrics>>

\* A plausible slip: only the current email is cleared, the draft stays.
submit_clear_keeps_draft(t) ==
  /\ running = t
  /\ task[t].pc = "submit_clear"
  /\ sess' = [sess EXCEPT ![task[t].sid].current_email_id = NoneVal]
  /\ task' = [task EXCEPT ![t].pc = "done"]
  /\ UNCHANGED <<sessions, event_listeners, notified, calls, running, nops,
                 dcmd, dres, metrics>>

\* After the notification: clear the current email and the draft, return.
submit_clear(t) ==
  /\ running = t
  /\ task[t].pc = "submit_clear"
  /\ sess' = [sess EXCEPT ![task[t].sid].current_email_id = NoneVal,
                          ![task[t].sid].draft_response = NoneVal]
  /\ task' = [task EXCEPT ![t].pc = "done"]
  /\ UNCHANGED <<sessions, event_listeners, notified, calls, running, nops,
                 dcmd, dres, metrics>>

\* ------------------------------------------------------------- warm start
\* A behaviour starts from a controller that has already served the first k
\* commands of Script, one after the other, each on the active session and
\* each answered with success by its collaborator, with no listener
\* registered.  WarmSession(k) and WarmCalls(k) are that session and the
\* collaborator calls made for it; WarmIsReachable is checked under SpecFresh.
FirstEmail == CHOOSE e \in 1..MaxEmails : \A f \in 1..MaxEmails : e <= f
Script == <<"login", "read_email", "generate", "submit">>
ScriptAt(k) == Script[((k - 1) % Len(Script)) + 1]

Entered(h) ==
  CASE h = "login" -> AUTHENTICATING
    [] h = "read_email" -> READING_EMAIL
    [] h = "generate" -> GENERATING_RESPONSE
    [] OTHER -> SUBMITTING

\* The session after the command of handler h has succeeded on session s,
\* its collaborator call being the n-th call.
Served(s, h, n) ==
  LET s1 == add_event(s, PROCESSING_COMMAND, "Processing command")
      s2 == add_event(s1, Entered(h),
              CASE h = "login" -> "Authenticating to Slate CRM"
                [] h = "read_email" -> "Reading email"
                [] h = "generate" -> "Generating email response"
                [] OTHER -> "Submitting response")
  IN CASE h = "login" ->
            add_event([s2 EXCEPT !.browser_session_id = n], LISTENING,
                      "Authentication successful, listening for next command")
       [] h = "read_email" ->
            add_event([s2 EXCEPT !.current_email_id = FirstEmail], LISTENING,
                      "Email read")
       [] h = "generate" ->
            add_event([s2 EXCEPT !.draft_response = s2.current_email_id],
                      REVIEWING, "Response generated, ready for review")
       [] OTHER ->
            [add_event(s2, LISTENING, "Response submitted successfully")
               EXCEPT !.current_email_id = NoneVal, !.draft_response = NoneVal]

\* The collaborator call of the command of handler h on session s.
ServedCall(s, h) ==
  CASE h = "login" ->
         [fn |-> "login_to_crm", sid |-> s.session_id, handle |-> NoneVal,
          email |-> NoneVal, text |-> NoneVal, send |-> FALSE]
    [] h = "read_email" ->
         [fn |-> "process_email", sid |-> s.session_id,
          handle |-> s.browser_session_id, email |-> NoneVal,
          text |-> NoneVal, send |-> FALSE]
    [] h = "generate" ->
         [fn |-> "process_email", sid |-> s.session_id,
          handle |-> s.browser_session_id, email |-> s.current_email_id,
          text |-> NoneVal, send |-> FALSE]
    [] OTHER ->
         [fn |-> "submit_draft", sid |-> s.session_id,
          handle |-> s.browser_session_id, email |-> s.current_email_id,
          text |-> s.draft_response, send |-> TRUE]

RECURSIVE WarmSession(_)
WarmSession(k) ==
  IF k = 0 THEN add_event(WorkflowSession(1), LISTENING, "Session created, listening for commands")
  ELSE Served(WarmSession(k - 1), ScriptAt(k), k)

RECURSIVE WarmCalls(_)
WarmCalls(k) ==
  IF k = 0 THEN <<>>
  ELSE Append(WarmCalls(k - 1), ServedCall(WarmSession(k - 1), ScriptAt(k)))

\* The controller after k commands of Script; k = 0 is the fresh controller.
WarmState(k) ==
  /\ sessions = IF k = 0 THEN <<>> ELSE <<1>>
  /\ sess = IF k = 0 THEN <<>> ELSE <<WarmSession(k)>>
  /\ event_listeners = <<>>
  /\ notified = <<>>
  /\ calls = WarmCalls(k)
  /\ task = [t \in Tasks |-> IdleTask]
  /\ running = 0
  /\ dcmd = {}
  /\ dres = "none"
  /\ metrics = ServiceMetrics

Init == \E k \in 0..MaxWarm : WarmState(k) /\ nops = 0

\* ------------------------------------------------------------- specification
Outcomes == {"success", "failure", "raise"}
EmailIds == 1..MaxEmails
SessionIds == 1..MaxSessions

\* The steps of the callers in T, with at most maxOps operations started and
\* maxListeners listeners registered, each one of `callbacks`; with
\* `between`, a listener is registered only while no operation is in progress.
Step(T, maxOps, maxListeners, between, callbacks) ==
  \/ \E cb \in callbacks :
       /\ Len(event_listeners) < maxListeners
       /\ between => \A t \in T : task[t].pc = "idle"
       /\ register_event_listener(cb)
  \/ \E t \in T : NotifyListener(t)
  \/ \E t \in T : NotifyDone(t)
  \/ \E t \in T : caller_resumes(t)
  \/ \E t \in T :
       nops < maxOps /\ Len(sess) < MaxSessions /\ CallCreateSession(t)
  \/ \E t \in T : create_session(t)
  \/ \E t \in T : create_session_return(t)
  \/ \E t \in T, id \in SessionIds : nops < maxOps /\ end_session(t, id)
  \/ \E t \in T, id \in SessionIds : nops < maxOps /\ CallGetSession(t, id)
  \/ \E t \in T : nops < maxOps /\ CallGetAllSessions(t)
  \/ \E t \in T, e \in VoiceEvents, c \in VoiceCommands :
       /\ nops < maxOps
       /\ e = "wake_word_detected" => Len(sess) < MaxSessions
       /\ e # "command_detected" => c = {"hello"}
       /\ handle_voice_event(t, e, c)
  \/ \E t \in T, raised \in BOOLEAN : end_session_browser_return(t, raised)
  \/ \E t \in T : end_session_idle(t)
  \/ \E t \in T : end_session_del(t)
  \/ \E t \in T, c \in Commands :
       /\ nops < maxOps
       /\ GetActiveSession # NoneVal \/ Len(sess) < MaxSessions
       /\ process_voice_command(t, c)
  \/ \E t \in T : process_command(t)
  \/ \E t \in T : dispatch(t)
  \/ \E t \in T : unknown_command(t)
  \/ \E t \in T : command_return(t)
  \/ \E t \in T : handle_login_command(t)
  \/ \E t \in T : login_call(t)
  \/ \E t \in T, o \in Outcomes : login_return(t, o)
  \/ \E t \in T : handle_inbox_command(t)
  \/ \E t \in T : inbox_call(t)
  \/ \E t \in T, o \in Outcomes : inbox_return(t, o)
  \/ \E t \in T : handle_read_email_command(t)
  \/ \E t \in T : read_call(t)
  \/ \E t \in T, o \in Outcomes, e \in EmailIds : read_return(t, o, e)
  \/ \E t \in T : handle_generate_response_command(t)
  \/ \E t \in T : generate_call(t)
  \/ \E t \in T, o \in Outcomes : generate_return(t, o)
  \/ \E t \in T : handle_submit_response_command(t)
  \/ \E t \in T : submit_call(t)
  \/ \E t \in T, o \in Outcomes : submit_return(t, o)
  \/ \E t \in T : submit_clear(t)

\* Concurrent callers.
Next == Step(Tasks, MaxOps, MaxListeners, FALSE, Callbacks)
Spec == Init /\ [][Next]_vars

\* One caller on a fresh controller, with enough operations to serve Script.
NextFresh == Step({1}, MaxWarm + 1, 0, TRUE, Callbacks)
SpecFresh == Fresh /\ [][NextFresh]_vars
\* Every warm start is a state of the fresh controller's behaviours.
WarmIsReached == WarmState(MaxWarm) /\ nops = MaxWarm

\* One caller, which awaits each operation before it starts the next one or
\* registers a listener.  With one caller nothing runs while a coroutine
\* listener is suspended, so plain listeners, one of which raises, show all
\* there is to see.
NextSeq ==
  Step({1}, SeqMaxOps, SeqMaxListeners, TRUE, {"sync", RaisingCallback})
SpecSeq == Init /\ [][NextSeq]_vars

\* Concurrent callers that log in and end sessions, with several coroutine
\* listeners registered before the first operation starts: the notifications
\* of two operations on one session can overlap.
NextOverlap ==
  \/ /\ Len(event_listeners) < OverlapMaxListeners
     /\ nops = 0
     /\ register_event_listener("async")
  \/ \E t \in Tasks : NotifyListener(t)
  \/ \E t \in Tasks : NotifyDone(t)
  \/ \E t \in Tasks : caller_resumes(t)
  \/ \E t \in Tasks : create_session(t)
  \/ \E t \in Tasks : create_session_return(t)
  \/ \E t \in Tasks, id \in SessionIds :
       /\ nops < MaxOps
       /\ Len(event_listeners) = OverlapMaxListeners
       /\ end_session(t, id)
  \/ \E t \in Tasks, raised \in BOOLEAN : end_session_browser_return(t, raised)
  \/ \E t \in Tasks : end_session_idle(t)
  \/ \E t \in Tasks : end_session_del(t)
  \/ \E t \in Tasks :
       /\ nops < MaxOps
       /\ Len(event_listeners) = OverlapMaxListeners
       /\ GetActiveSession # NoneVal \/ Len(sess) < MaxSessions
       /\ process_voice_command(t, {"login", "Slate"})
  \/ \E t \in Tasks : process_command(t)
  \/ \E t \in Tasks : dispatch(t)
  \/ \E t \in Tasks : command_return(t)
  \/ \E t \in Tasks : handle_login_command(t)
  \/ \E t \in Tasks : login_call(t)
  \/ \E t \in Tasks, o \in Outcomes : login_return(t, o)
SpecOverlap == Init /\ [][NextOverlap]_vars

\* The keyword chain alone, on every command over the vocabulary.
InitDispatch ==
  /\ sessions = <<>>
  /\ sess = <<>>
  /\ event_listeners = <<>>
  /\ notified = <<>>
  /\ calls = <<>>
  /\ task = [t \in Tasks |-> IdleTask]
  /\ running = 0
  /\ nops = 0
  /\ dcmd \in SUBSET (Vocabulary \ {"Slate"})
  /\ dres = "none"
  /\ metrics = ServiceMetrics

ClassifyCommand ==
  /\ dres = "none"
  /\ dres' = Classify(dcmd)
  /\ UNCHANGED <<sessions, sess, event_listeners, notified, calls, task,
                 running, nops, dcmd, metrics>>

SpecDispatch == InitDispatch /\ [][ClassifyCommand]_vars

\* ------------------------------------------------------------- metrics
\* list.pop(0)
PopFirst(seq) == Tail(seq)

\* A plausible slip: pop() with no index drops the newest response time.
record_request_pops_newest(success, response_time, error, now) ==
  /\ metrics' =
       LET times == Append(metrics.response_times, response_time)
       IN [metrics EXCEPT
             !.requests_total = @ + 1,
             !.requests_success = IF success THEN @ + 1 ELSE @,
             !.requests_error = IF success THEN @ ELSE @ + 1,
             !.last_error = IF success THEN @ ELSE error,
             !.last_error_time = IF success THEN @ ELSE now,
             !.response_times = IF Len(times) > MaxResponseTimes
                                  THEN SubSeq(times, 1, Len(times) - 1)
                                  ELSE times]
  /\ UNCHANGED <<sessions, sess, event_listeners, notified, calls, task,
                 running, nops, dcmd, dres>>

\* ServiceMetrics.record_request(success, response_time, error), called at
\* time `now`.
record_request(success, response_time, error, now) ==
  /\ metrics' =
       LET times == Append(metrics.response_times, response_time)
       IN [metrics EXCEPT
             !.requests_total = @ + 1,
             !.requests_success = IF success THEN @ + 1 ELSE @,
             !.requests_error = IF success THEN @ ELSE @ + 1,
             !.last_error = IF success THEN @ ELSE error,
             !.last_error_time = IF success THEN @ ELSE now,
             !.response_times = IF Len(times) > MaxResponseTimes
                                  THEN PopFirst(times)
                                  ELSE times]
  /\ UNCHANGED <<sessions, sess, event_listeners, notified, calls, task,
                 running, nops, dcmd, dres>>

\* The error texts a failed request is recorded with, numbered; None is the
\* default of the parameter.
ErrorTexts == {NoneVal, 1}

\* The requests of one service, recorded one after the other.
\* record_request only stores the response time, so each request's time is
\* a value of its own, its arrival number, which also serves as the clock.
NextMetrics ==
  \E success \in BOOLEAN, error \in ErrorTexts :
    /\ metrics.requests_total < MaxRequests
    /\ success => error = NoneVal
    /\ record_request(success, metrics.requests_total + 1, error,
                      metrics.requests_total + 1)
SpecMetrics == Fresh /\ [][NextMetrics]_vars

\* ------------------------------------------------------------- claims
Last(seq) == seq[Len(seq)]
\* The states of the events of session id, in order.
States(id) == [i \in 1..Len(sess[id].events) |-> sess[id].events[i].state]
\* The states appended to the session of task t since its command arrived.
NewStates(t) ==
  SubSeq(States(task[t].sid), task[t].base + 1, Len(States(task[t].sid)))
\* The listener positions invoked with event idx of session id, in order.
Deliveries(id, idx) ==
  LET d == SelectSeq(notified, LAMBDA n : n.sid = id /\ n.idx = idx)
  IN [i \in 1..Len(d) |-> d[i].l]
UpTo(n) == [i \in 1..n |-> i]

\* C1: every session built so far has at least one event, and its
\* current_state is the state of its last event -- in every state, so also
\* while a listener is being notified and while commands interleave.
C1_StateIsLastEvent ==
  \A id \in DOMAIN sess :
    /\ Len(sess[id].events) >= 1
    /\ sess[id].current_state = Last(sess[id].events).state

\* Two commands are in progress on one session and a listener has just been
\* invoked for an event of one of them.
C1_Witness ==
  \E t \in Tasks, u \in Tasks :
    /\ t # u
    /\ task[t].op = "command" /\ task[u].op = "command"
    /\ task[t].sid = task[u].sid
    /\ task[t].pc = "notify" /\ task[t].ni > 1
    /\ task[u].mine # <<>>

\* C2: right after create_session has built its session, the registry is
\* the registry the caller found plus the new id, and the new session is
\* LISTENING with exactly one (LISTENING) event and no browser handle, email
\* or draft; create_session returns "created" with that id, having appended
\* that one event and called no collaborator.
C2_CreateSession ==
  \A t \in Tasks :
    /\ (task[t].pc = "notify" /\ task[t].ret = "create_return" /\ task[t].ni = 1)
         => /\ sessions = Append(task[t].reg0, task[t].sid)
            /\ task[t].sid \notin Range(task[t].reg0)
            /\ sess[task[t].sid] =
                 [session_id |-> task[t].sid, browser_session_id |-> NoneVal,
                  current_email_id |-> NoneVal, current_state |-> LISTENING,
                  draft_response |-> NoneVal, start_time |-> DefaultStartTime,
                  events |-> <<WorkflowEvent(LISTENING, "Session created, listening for commands")>>]
            /\ task[t].ncalls = 0
    /\ (task[t].op = "create" /\ task[t].pc = "done")
         => /\ task[t].result = Result("created", "", task[t].sid)
            /\ task[t].mine = <<LISTENING>>
            /\ task[t].ncalls = 0

\* create_session has returned while another session is registered too.
C2_Witness ==
  \E t \in Tasks :
    /\ task[t].op = "create" /\ task[t].pc = "done"
    /\ Len(sessions) >= 2

\* C3 (as claimed): when process_voice_command finds at least two non-IDLE
\* sessions, it dispatches to the one created last (session ids are handed
\* out in creation order).
C3_RoutesToMostRecent ==
  \A t \in Tasks :
    (task[t].op = "command" /\ task[t].pc = "process" /\ ~task[t].fresh
       /\ Len(task[t].act0) >= 2)
      => \A a \in Range(task[t].act0) : a <= task[t].sid

\* C4: the handler chosen is that of the first rule, in the order login,
\* inbox, read-email, generate, submit, save-draft, whose keywords the
\* command holds, and "unknown" when no rule matches; a command with read,
\* email and send but without emails, inbox and login goes to read-email.
RuleHandler ==
  <<"login", "inbox", "read_email", "generate", "submit", "save_draft">>
RuleMatches(i, c) ==
  CASE i = 1 -> Has(c, "login") \/ Has(c, "log in")
    [] i = 2 -> Has(c, "inbox") \/ Has(c, "emails")
    [] i = 3 -> Has(c, "read") /\ (Has(c, "email") \/ Has(c, "message"))
    [] i = 4 -> Has(c, "generate") \/ Has(c, "respond") \/ Has(c, "reply")
    [] i = 5 -> Has(c, "submit") \/ Has(c, "send")
    [] OTHER -> Has(c, "save") /\ Has(c, "draft")
C4_FirstMatchWins ==
  dres # "none" =>
    LET m == {i \in 1..Len(RuleHandler) : RuleMatches(i, dcmd)}
    IN /\ m = {} => dres = "unknown"
       /\ m # {} => dres = RuleHandler[CHOOSE i \in m : \A j \in m : i <= j]
       /\ (/\ Has(dcmd, "read") /\ Has(dcmd, "email") /\ Has(dcmd, "send")
           /\ ~Has(dcmd, "emails") /\ ~Has(dcmd, "inbox")
           /\ ~Has(dcmd, "login") /\ ~Has(dcmd, "log in"))
            => dres = "read_email"

\* "read ... email ... send" has been classified.
C4_Witness ==
  /\ dres = "read_email"
  /\ {"read", "email", "send"} \subseteq dcmd

\* A login command whose authenticator answered success has returned.
LoginServed(t) ==
  /\ task[t].op = "command" /\ task[t].handler = "login"
  /\ task[t].outcome = "success" /\ task[t].pc = "done"

\* C5 (as claimed): the login command leaves the session LISTENING with a
\* browser handle and appends exactly two events, AUTHENTICATING then
\* LISTENING.
C5_TwoNewEvents ==
  \A t \in Tasks :
    LoginServed(t) =>
      /\ sess[task[t].sid].current_state = LISTENING
      /\ sess[task[t].sid].browser_session_id # NoneVal
      /\ NewStates(t) = <<AUTHENTICATING, LISTENING>>

\* C5 (amended): the login command returns success, leaves the session
\* LISTENING with a browser handle and appends exactly three events:
\* PROCESSING_COMMAND, AUTHENTICATING, LISTENING.
C5_ThreeNewEvents ==
  \A t \in Tasks :
    LoginServed(t) =>
      /\ task[t].result.status = "success"
      /\ sess[task[t].sid].current_state = LISTENING
      /\ sess[task[t].sid].browser_session_id # NoneVal
      /\ NewStates(t) = <<PROCESSING_COMMAND, AUTHENTICATING, LISTENING>>

\* The login was served on a session that create_session had just made.
C5_Witness ==
  \E t \in Tasks :
    /\ LoginServed(t)
    /\ ~task[t].fresh
    /\ task[t].base = 1

\* C6: a generate command received by a session with no current email
\* returns the error "No email selected", leaves the session in ERROR and
\* the draft unset (as it was), and calls no collaborator.
C6_GenerateWithoutEmail ==
  \A t \in Tasks :
    (/\ task[t].op = "command" /\ task[t].handler = "generate"
     /\ task[t].pc = "done"
     /\ task[t].pre.current_email_id = NoneVal)
      => /\ task[t].result = Result("error", "No email selected", NoneVal)
         /\ sess[task[t].sid].current_state = ERROR
         /\ NewStates(t) = <<PROCESSING_COMMAND, ERROR>>
         /\ sess[task[t].sid].draft_response = NoneVal
         /\ sess[task[t].sid].draft_response = task[t].pre.draft_response
         /\ task[t].ncalls = 0

\* The generate command was refused on a session that is logged in.
C6_Witness ==
  \E t \in Tasks :
    /\ task[t].op = "command" /\ task[t].handler = "generate"
    /\ task[t].pc = "done"
    /\ task[t].pre.current_email_id = NoneVal
    /\ task[t].pre.browser_session_id # NoneVal

\* C7: end_session with an id that is not registered returns the error
\* "Session not found" in that very step and changes neither the registry,
\* nor any session, nor the listeners; no listener is invoked and no
\* collaborator called.
C7_EndUnknownChangesNothing ==
  [][\A t \in Tasks :
       (/\ task[t].pc = "idle"
        /\ task'[t].op = "end"
        /\ task'[t].arg \notin Range(sessions))
         => /\ task'[t].pc = "done"
            /\ task'[t].result = Result("error", "Session not found", NoneVal)
            /\ UNCHANGED <<sessions, sess, event_listeners, notified, calls>>]_vars

\* end_session was refused while a session with another id is registered
\* and a listener is registered.
C7_Witness ==
  \E t \in Tasks :
    /\ task[t].op = "end" /\ task[t].pc = "done" /\ ~task[t].found
    /\ task[t].result.status = "error"
    /\ sessions # <<>>
    /\ event_listeners # <<>>

\* C8: end_session on a registered id appends exactly one IDLE event, has
\* every registered listener invoked with it while the session is still
\* registered, and then returns "ended" with the id, which is then neither
\* in the registry nor in get_all_sessions.
C8_EndSession ==
  \A t \in Tasks :
    (task[t].op = "end" /\ task[t].found) =>
      /\ task[t].pc = "end_del" =>
           /\ Registered(task[t].sid)
           /\ Last(States(task[t].sid)) = IDLE
           /\ task[t].ev = [sid |-> task[t].sid, idx |-> Len(States(task[t].sid))]
           /\ Deliveries(task[t].sid, task[t].ev.idx) = UpTo(Len(event_listeners))
      /\ task[t].pc = "done" =>
           /\ task[t].result = Result("ended", "", task[t].arg)
           /\ ~Registered(task[t].arg)
           /\ \A i \in DOMAIN get_all_sessions :
                get_all_sessions[i].session_id # task[t].arg
           /\ task[t].mine = <<IDLE>>
           /\ Last(States(task[t].sid)) = IDLE
           /\ Deliveries(task[t].sid, task[t].ev.idx) = UpTo(Len(event_listeners))

\* A session was created and ended at once, with a listener registered.
C8_Witness ==
  \E t \in Tasks :
    /\ task[t].op = "end" /\ task[t].pc = "done" /\ task[t].found
    /\ States(task[t].sid) = <<LISTENING, IDLE>>
    /\ event_listeners # <<>>

\* C9: every event is delivered to the registrations in registration order,
\* each once: while the loop runs to those before its index, and when the
\* operation goes on to every registration, so a callback registered twice
\* has been invoked twice; with one listener, create_session has invoked it
\* once, with a LISTENING event.
C9_NotifyEachOnceInOrder ==
  /\ \A k \in 1..Len(notified) :
       /\ notified[k].l <= Len(event_listeners)
       /\ notified[k].cb = event_listeners[notified[k].l]
  /\ \A id \in DOMAIN sess : \A idx \in 1..Len(sess[id].events) :
       Deliveries(id, idx) = UpTo(Len(Deliveries(id, idx)))
  /\ \A t \in Tasks :
       /\ task[t].pc = "notify" =>
            Deliveries(task[t].ev.sid, task[t].ev.idx) = UpTo(task[t].ni - 1)
       /\ (task[t].pc = task[t].ret) =>
            /\ Deliveries(task[t].ev.sid, task[t].ev.idx)
                 = UpTo(Len(event_listeners))
            /\ \A cb \in Callbacks :
                 Cardinality({k \in 1..Len(notified) :
                    /\ notified[k].sid = task[t].ev.sid
                    /\ notified[k].idx = task[t].ev.idx
                    /\ notified[k].cb = cb})
                 = Cardinality({l \in 1..Len(event_listeners) :
                      event_listeners[l] = cb})
       /\ (task[t].op = "create" /\ task[t].pc = "done"
             /\ Len(event_listeners) = 1) =>
            /\ Cardinality({k \in 1..Len(notified) :
                  notified[k].sid = task[t].sid}) = 1
            /\ \A k \in 1..Len(notified) :
                 notified[k].sid = task[t].sid =>
                   sess[task[t].sid].events[notified[k].idx].state = LISTENING

\* The same callback is registered twice and an event has gone to both.
C9_Witness ==
  \E t \in Tasks :
    /\ task[t].pc = "create_return"
    /\ Len(event_listeners) = 2
    /\ event_listeners[1] = event_listeners[2]

\* C10: process_voice_command that finds no non-IDLE session creates exactly
\* one session, registers it and dispatches the command to it; one that
\* finds a non-IDLE session creates none, leaves the registry's keys as they
\* were and dispatches to one of the sessions it found.
C10_CreatesOnlyWhenNoneActive ==
  \A t \in Tasks :
    (task[t].op = "command" /\ task[t].pc = "done") =>
      IF task[t].act0 = <<>>
        THEN /\ sessions = Append(task[t].reg0, task[t].sid)
             /\ Len(sess) = task[t].nsess0 + 1
             /\ task[t].sid = Len(sess)
             /\ Len(task[t].mine) >= 2
             /\ task[t].mine[1] = LISTENING
             /\ task[t].mine[2] = PROCESSING_COMMAND
             /\ States(task[t].sid) = task[t].mine
        ELSE /\ sessions = task[t].reg0
             /\ Len(sess) = task[t].nsess0
             /\ task[t].sid \in Range(task[t].act0)
             /\ task[t].mine # <<>>
             /\ task[t].mine[1] = PROCESSING_COMMAND
             /\ NewStates(t) = task[t].mine

\* A command arrived after the only session had been ended, and made a new
\* session.
C10_Witness ==
  \E t \in Tasks :
    /\ task[t].op = "command" /\ task[t].pc = "done"
    /\ task[t].fresh
    /\ task[t].nsess0 >= 1

\* The session's fields are those it had when the command was received.
FieldsKept(t) ==
  /\ sess[task[t].sid].browser_session_id = task[t].pre.browser_session_id
  /\ sess[task[t].sid].current_email_id = task[t].pre.current_email_id
  /\ sess[task[t].sid].draft_response = task[t].pre.draft_response

\* process_voice_command has returned from a dispatch to handler h.
Returned(t, h) ==
  /\ task[t].op = "command" /\ task[t].pc = "done"
  /\ task[t].handler = h

\* The precondition of handler h fails on a session with the fields `pre`,
\* and the message of the result then.
PreconditionFails(h, pre) ==
  \/ h \in {"inbox", "read_email"} /\ pre.browser_session_id = NoneVal
  \/ h = "generate" /\ pre.current_email_id = NoneVal
  \/ /\ h \in {"submit", "save_draft"}
     /\ pre.current_email_id = NoneVal \/ pre.draft_response = NoneVal
PreconditionMessage(h, pre) ==
  IF h \in {"inbox", "read_email"} THEN "Not authenticated"
  ELSE IF pre.current_email_id = NoneVal THEN "No email selected"
  ELSE "No draft response created"
InProgress == {NAVIGATING, READING_EMAIL, GENERATING_RESPONSE, SUBMITTING}

\* C11: a command whose handler's precondition fails (inbox or read-email
\* without a browser handle, generate without an email, submit or save-draft
\* without an email or without a draft) appends an ERROR event right after
\* PROCESSING_COMMAND and no in-progress state, returns status error with the
\* precondition's message, calls no collaborator and leaves the browser
\* handle, the email and the draft as they were.
C11_PreconditionFailure ==
  \A t \in Tasks : \A h \in {"inbox", "read_email", "generate", "submit",
                            "save_draft"} :
    (Returned(t, h) /\ PreconditionFails(h, task[t].pre)) =>
      /\ NewStates(t) = <<PROCESSING_COMMAND, ERROR>>
      /\ Range(NewStates(t)) \cap InProgress = {}
      /\ task[t].result =
           Result("error", PreconditionMessage(h, task[t].pre), NoneVal)
      /\ task[t].ncalls = 0
      /\ FieldsKept(t)

\* A submit command was refused on a session with an email but no draft.
C11_Witness ==
  \E t \in Tasks :
    /\ Returned(t, "submit")
    /\ task[t].pre.current_email_id # NoneVal
    /\ task[t].pre.draft_response = NoneVal
    /\ task[t].result.message = "No draft response created"

\* C12 (as claimed): whichever handler ran, when its collaborator raised or
\* answered with a failure, the command ends with ERROR as the session's
\* last event and returns status error.
C12_FailureEndsInError ==
  \A t \in Tasks : \A h \in {"login", "inbox", "read_email", "generate",
                            "submit", "save_draft"} :
    (Returned(t, h) /\ task[t].outcome \in {"failure", "raise"}) =>
      /\ Last(States(task[t].sid)) = ERROR
      /\ task[t].result.status = "error"

\* C13: a session whose last event is ERROR is registered; a command that
\* finds one registered creates no session and takes it as one of the active
\* sessions; and a command received by a session in ERROR is processed as by
\* any other: it is refused only for being unknown, for a failed
\* precondition or for its collaborator's failure, and otherwise succeeds
\* and leaves the session LISTENING (REVIEWING for generate).
C13_ErrorIsNotTerminal ==
  /\ \A id \in DOMAIN sess :
       Last(States(id)) = ERROR => Registered(id)
  /\ \A t \in Tasks :
       (task[t].op = "command" /\ task[t].err0 # {}) =>
         /\ ~task[t].fresh
         /\ task[t].pc \notin {"create", "create_return"}
         /\ task[t].err0 \subseteq Range(task[t].act0)
         /\ task[t].sid \in Range(task[t].act0)
         /\ Len(sess) = task[t].nsess0
  /\ \A t \in Tasks :
       LET h == task[t].handler
       IN (/\ task[t].op = "command" /\ task[t].pc = "done"
           /\ task[t].pre.current_state = ERROR) =>
         /\ h \in {"login", "inbox", "read_email", "generate", "submit",
                   "save_draft", "unknown"}
         /\ NewStates(t)[1] = PROCESSING_COMMAND
         /\ task[t].result.status \in {"success", "error"}
         /\ task[t].result.status = "error" =>
              \/ h = "unknown"
              \/ PreconditionFails(h, task[t].pre)
              \/ task[t].outcome \in {"failure", "raise"}
         /\ (/\ h # "unknown"
             /\ ~PreconditionFails(h, task[t].pre)
             /\ task[t].outcome = "success") =>
              /\ task[t].result.status = "success"
              /\ Last(States(task[t].sid)) =
                   IF h = "generate" THEN REVIEWING ELSE LISTENING

\* A generate command brought a session from ERROR to REVIEWING.
C13_Witness ==
  \E t \in Tasks :
    /\ Returned(t, "generate")
    /\ task[t].pre.current_state = ERROR
    /\ task[t].sid \in task[t].err0
    /\ Last(States(task[t].sid)) = REVIEWING

\* The requests to end the browser session made for session id.
EndRequests(id) ==
  SelectSeq(calls, LAMBDA c : c.fn = "manage_session_end" /\ c.sid = id)

\* C14: end_session on a registered session asks the browser driver to end
\* the session's handle exactly once when there is a handle and never when
\* there is none; the IDLE event is appended only after the driver answered,
\* the listeners are notified of it while the session is registered, and
\* only then is the session removed and 'ended' returned -- also when the
\* driver raised.
C14_EndSessionOrder ==
  \A t \in Tasks :
    (task[t].op = "end" /\ task[t].found) =>
      LET id == task[t].sid
          handle == sess[id].browser_session_id
      IN /\ task[t].ncalls = IF handle # NoneVal THEN 1 ELSE 0
         /\ Len(EndRequests(id)) = task[t].ncalls
         /\ \A i \in 1..Len(EndRequests(id)) :
              EndRequests(id)[i].handle = handle
         /\ (task[t].outcome = "none") <=>
              (handle = NoneVal \/ task[t].pc = "end_wait")
         /\ task[t].pc \in {"end_wait", "end_idle"} =>
              /\ task[t].mine = <<>>
              /\ Last(States(id)) # IDLE
              /\ Registered(id)
         /\ task[t].pc = "notify" =>
              /\ task[t].mine = <<IDLE>>
              /\ Last(States(id)) = IDLE
              /\ task[t].ev = [sid |-> id, idx |-> Len(States(id))]
              /\ Registered(id)
         /\ task[t].pc = "end_del" =>
              /\ Deliveries(id, Len(States(id))) = UpTo(Len(event_listeners))
              /\ Registered(id)
         /\ task[t].pc = "done" =>
              /\ task[t].mine = <<IDLE>>
              /\ Deliveries(id, Len(States(id))) = UpTo(Len(event_listeners))
              /\ ~Registered(id)
              /\ task[t].result = Result("ended", "", id)

\* end_session returned 'ended' although the browser driver had raised,
\* and a listener was told of the IDLE event.
C14_Witness ==
  \E t \in Tasks :
    /\ task[t].op = "end" /\ task[t].pc = "done" /\ task[t].found
    /\ task[t].outcome = "raise"
    /\ task[t].result.status = "ended"
    /\ Deliveries(task[t].sid, Len(States(task[t].sid))) # <<>>

\* What a dispatch to handler h does on a session with the fields `pre`
\* when its collaborator answers o and every listener returns: the states
\* it appends and the status it returns.
EntryState(h) ==
  CASE h = "login" -> AUTHENTICATING
    [] h = "inbox" -> NAVIGATING
    [] h = "read_email" -> READING_EMAIL
    [] h = "generate" -> GENERATING_RESPONSE
    [] OTHER -> SUBMITTING
\* The answer of submit_draft is not read: only a raised fault fails it.
Fails(h, o) ==
  IF h \in {"submit", "save_draft"} THEN o = "raise" ELSE o # "success"
DispatchStates(h, pre, o) ==
  IF h = "unknown" \/ PreconditionFails(h, pre)
    THEN <<PROCESSING_COMMAND, ERROR>>
    ELSE <<PROCESSING_COMMAND, EntryState(h),
           IF Fails(h, o) THEN ERROR
           ELSE IF h = "generate" THEN REVIEWING ELSE LISTENING>>
DispatchStatus(h, pre, o) ==
  IF h = "unknown" \/ PreconditionFails(h, pre) \/ Fails(h, o)
    THEN "error" ELSE "success"

\* Some listener raised on event idx of session id.
RaisedOn(id, idx) ==
  \E k \in 1..Len(notified) :
    /\ notified[k].sid = id /\ notified[k].idx = idx
    /\ notified[k].cb = RaisingCallback

\* C15: when a listener raises on an event, the listeners registered after
\* it are invoked for that event all the same, and the operation ends as it
\* does when every listener returns: create_session returns 'created' with
\* one LISTENING event, end_session returns 'ended' after one IDLE event, and
\* a command appends the states and returns the status that its handler,
\* the session's fields and the collaborator's answer determine.
C15_ListenerFaultIsContained ==
  /\ \A t \in Tasks :
       (task[t].pc # "idle" /\ task[t].ev.idx > 0
          /\ RaisedOn(task[t].ev.sid, task[t].ev.idx)) =>
         /\ task[t].pc = "notify" =>
              Deliveries(task[t].ev.sid, task[t].ev.idx) = UpTo(task[t].ni - 1)
         /\ task[t].pc # "notify" =>
              Deliveries(task[t].ev.sid, task[t].ev.idx)
                = UpTo(Len(event_listeners))
  /\ \A t \in Tasks :
       task[t].pc = "done" =>
         /\ task[t].op = "create" =>
              /\ task[t].result = Result("created", "", task[t].sid)
              /\ States(task[t].sid) = <<LISTENING>>
         /\ (task[t].op = "end" /\ task[t].found) =>
              /\ task[t].result = Result("ended", "", task[t].sid)
              /\ task[t].mine = <<IDLE>>
              /\ ~Registered(task[t].sid)
         /\ task[t].op = "command" =>
              /\ NewStates(t) =
                   DispatchStates(task[t].handler, task[t].pre, task[t].outcome)
              /\ task[t].result.status =
                   DispatchStatus(task[t].handler, task[t].pre, task[t].outcome)
              /\ task[t].fresh => States(task[t].sid)[1] = LISTENING

\* A command has returned success; the first of two listeners raised on
\* each of its events, and the second was invoked with every one of them.
C15_Witness ==
  \E t \in Tasks :
    /\ task[t].op = "command" /\ task[t].pc = "done"
    /\ task[t].result.status = "success"
    /\ event_listeners = <<RaisingCallback, "sync">>
    /\ \A i \in task[t].base + 1 .. Len(States(task[t].sid)) :
         Deliveries(task[t].sid, i) = <<1, 2>>

\* C16: a command that matches none of the keyword rules appends
\* PROCESSING_COMMAND and then directly ERROR, returns status error with the
\* message 'Unknown command', calls no collaborator and leaves the browser
\* handle, the email and the draft as they were.
C16_UnknownCommand ==
  \A t \in Tasks :
    (/\ task[t].op = "command" /\ task[t].pc = "done"
     /\ \A i \in 1..Len(RuleHandler) : ~RuleMatches(i, task[t].cmd)) =>
      /\ task[t].handler = "unknown"
      /\ NewStates(t) = <<PROCESSING_COMMAND, ERROR>>
      /\ Last(sess[task[t].sid].events).message = "Unknown command"
      /\ task[t].result = Result("error", "Unknown command", NoneVal)
      /\ task[t].ncalls = 0
      /\ FieldsKept(t)

\* An unknown command was received by a session that holds a draft.
C16_Witness ==
  \E t \in Tasks :
    /\ Returned(t, "unknown")
    /\ task[t].pre.browser_session_id # NoneVal
    /\ task[t].pre.current_email_id # NoneVal
    /\ task[t].pre.draft_response # NoneVal

\* C17: a call of get_session or get_all_sessions changes neither the
\* registry, nor any session, nor the listeners, invokes no listener and
\* calls no collaborator; get_session returns None for an id that is not
\* registered, and otherwise a snapshot with the session's id, state,
\* browser handle, email, has_draft flag and number of events.
C17_QueriesAreReadOnly ==
  [][\A t \in Tasks :
       (task[t].pc = "idle" /\ task'[t].op \in {"get", "get_all"}) =>
         /\ UNCHANGED <<sessions, sess, event_listeners, notified, calls>>
         /\ task'[t].pc = "done"
         /\ task'[t].op = "get" =>
              IF task'[t].arg \notin Range(sessions)
                THEN task'[t].snap = NoneVal
                ELSE LET s == sess[task'[t].arg]
                         snap == task'[t].snap
                     IN /\ DOMAIN snap =
                             {"session_id", "browser_session_id",
                              "current_state", "current_email_id",
                              "has_draft", "events"}
                        /\ snap.session_id = task'[t].arg
                        /\ snap.session_id = s.session_id
                        /\ snap.browser_session_id = s.browser_session_id
                        /\ snap.current_state = s.current_state
                        /\ snap.current_email_id = s.current_email_id
                        /\ snap.has_draft = (s.draft_response # NoneVal)
                        /\ snap.events = Len(s.events)]_vars

\* get_session returned the snapshot of a session with an email and no
\* draft while another caller's operation was in progress.
C17_Witness ==
  \E t \in Tasks, u \in Tasks :
    /\ task[t].op = "get" /\ task[t].pc = "done"
    /\ Registered(task[t].arg)
    /\ task[t].snap.current_email_id # NoneVal
    /\ ~task[t].snap.has_draft
    /\ task[u].pc \notin {"idle", "done"}

\* The sessions that were created and are registered no more.
Ended == {id \in DOMAIN sess : ~Registered(id)}

\* C18: get_all_sessions yields one snapshot for each registered session, in
\* the order of registration (which is the order of creation), and none for
\* a session that was ended; a call returns just that, so as many snapshots
\* as sessions were created when none was ended.
C18_AllSessions ==
  /\ Len(get_all_sessions) = Len(sessions)
  /\ \A i \in 1..Len(sessions) :
       /\ get_all_sessions[i].session_id = sessions[i]
       /\ get_all_sessions[i].events = Len(sess[sessions[i]].events)
  /\ \A i \in 1..Len(sessions) : \A j \in 1..Len(sessions) :
       i < j => sessions[i] < sessions[j]
  /\ \A id \in Ended : \A i \in 1..Len(get_all_sessions) :
       get_all_sessions[i].session_id # id
  /\ \A t \in Tasks :
       (task[t].op = "get_all" /\ task[t].pc = "done") =>
         /\ Len(task[t].snap) = Len(sessions)
         /\ \A i \in 1..Len(sessions) :
              task[t].snap[i].session_id = sessions[i]
         /\ Ended = {} => Len(task[t].snap) = Len(sess)

\* get_all_sessions returned the snapshots of two sessions.
C18_Witness ==
  \E t \in Tasks :
    /\ task[t].op = "get_all" /\ task[t].pc = "done"
    /\ Len(task[t].snap) = 2
    /\ task[t].snap[1].session_id # task[t].snap[2].session_id

ProcessingAt(t) ==
  {i \in 1..Len(task[t].mine) : task[t].mine[i] = PROCESSING_COMMAND}

\* C20: a dispatch appends PROCESSING_COMMAND once, as the first of its
\* events; when it returns it has appended at least one more event after
\* it, and the last event it appended is LISTENING, REVIEWING or ERROR --
\* also when dispatches of several callers interleave.
C20_ProcessingIsTransient ==
  \A t \in Tasks :
    /\ Cardinality(ProcessingAt(t)) <= 1
    /\ \A i \in ProcessingAt(t) :
         i = IF task[t].fresh THEN 2 ELSE 1
    /\ (task[t].op \in {"command", "voice_command"}
          /\ task[t].pc \in {"dispatch", "return", "submit_clear", "done"}
          /\ task[t].sid # NoneVal /\ task[t].result.status # "fault") =>
         ProcessingAt(t) # {}
    /\ (task[t].pc \in {"return", "submit_clear", "done"}
          /\ ProcessingAt(t) # {}) =>
         /\ \E i \in ProcessingAt(t) : i < Len(task[t].mine)
         /\ Last(task[t].mine) \in {LISTENING, REVIEWING, ERROR}

\* A dispatch returned from REVIEWING while another caller's dispatch to the
\* same session was in progress.
C20_Witness ==
  \E t \in Tasks, u \in Tasks :
    /\ t # u
    /\ task[t].op = "command" /\ task[t].pc = "done"
    /\ Last(task[t].mine) = REVIEWING
    /\ task[u].op \in {"command", "voice_command"}
    /\ task[u].sid = task[t].sid
    /\ ProcessingAt(u) # {}
    /\ task[u].pc # "done"

\* Task t appends `state` to its session in this step.
Appends(t, state) ==
  /\ Len(task'[t].mine) = Len(task[t].mine) + 1
  /\ Last(task'[t].mine) = state

\* C21 (as claimed): a command appends SUBMITTING only when the session was
\* REVIEWING when the command was received; a submit or save-draft command
\* received in LISTENING or ERROR appends no SUBMITTING event and does not
\* call submit_draft.
C21_SubmittingOnlyFromReviewing ==
  \A t \in Tasks :
    task[t].op = "command" =>
      /\ SUBMITTING \in Range(task[t].mine) =>
           task[t].pre.current_state = REVIEWING
      /\ (/\ task[t].handler \in {"submit", "save_draft"}
          /\ task[t].pre.current_state \in {LISTENING, ERROR}) =>
           /\ SUBMITTING \notin Range(task[t].mine)
           /\ task[t].ncalls = 0

\* C21 (amended): SUBMITTING is appended only by the submit handler (submit
\* or save-draft), and only when the session holds both a current email and
\* a draft at the moment the handler checks them, whatever state the command
\* was received in; when either is missing at that moment the handler appends
\* ERROR and returns, and the command ends without a SUBMITTING event and
\* without a collaborator call; submit_draft is called only by a command
\* that has appended SUBMITTING.
C21_SubmittingOnlyWithEmailAndDraft ==
  [][\A t \in Tasks :
       /\ Appends(t, SUBMITTING) =>
            /\ task[t].handler \in {"submit", "save_draft"}
            /\ task[t].pc = "submit"
            /\ sess[task[t].sid].current_email_id # NoneVal
            /\ sess[task[t].sid].draft_response # NoneVal
       /\ (/\ task[t].pc = "submit" /\ task'[t].pc # "submit"
           /\ \/ sess[task[t].sid].current_email_id = NoneVal
              \/ sess[task[t].sid].draft_response = NoneVal) =>
            /\ Appends(t, ERROR)
            /\ task'[t].ret = "return"
            /\ task'[t].result.status = "error"
            /\ UNCHANGED calls
       /\ (/\ task[t].pc = "return" /\ task'[t].pc = "done"
           /\ task[t].handler \in {"submit", "save_draft"}
           /\ SUBMITTING \notin Range(task[t].mine)) =>
            /\ task[t].ncalls = 0
            /\ Last(task[t].mine) = ERROR
       /\ (/\ Len(calls') = Len(calls) + 1
           /\ Last(calls').fn = "submit_draft"
           /\ task'[t].ncalls = task[t].ncalls + 1) =>
            SUBMITTING \in Range(task[t].mine)]_vars

\* A send command was received by a session in ERROR that held an email and
\* a draft; it appended SUBMITTING and called submit_draft.
C21_Witness ==
  \E t \in Tasks :
    /\ Returned(t, "submit")
    /\ task[t].pre.current_state = ERROR
    /\ SUBMITTING \in Range(task[t].mine)
    /\ task[t].ncalls = 1
    /\ calls[task[t].callix].fn = "submit_draft"

\* A listener has been invoked with the event that task t appended last,
\* the success event (LISTENING or REVIEWING) that ends the command of
\* handler h.
FinalEventDelivered(t, h) ==
  /\ task[t].op = "command" /\ task[t].handler = h
  /\ task[t].pc = "notify" /\ task[t].ni > 1
  /\ Last(task[t].mine) \in {LISTENING, REVIEWING}
  /\ task[t].ev = [sid |-> task[t].sid, idx |-> Len(States(task[t].sid))]

\* C22 (as claimed): when the listeners receive the final LISTENING or
\* REVIEWING event of a command, the handler's field updates are already
\* made: the browser handle is set (login), the current email is set (read),
\* the draft is set (generate), the current email and the draft are cleared
\* (submit and save-draft).
C22_FieldsSetBeforeFinalEvent ==
  \A t \in Tasks :
    LET s == sess[task[t].sid]
    IN /\ FinalEventDelivered(t, "login") => s.browser_session_id # NoneVal
       /\ FinalEventDelivered(t, "read_email") => s.current_email_id # NoneVal
       /\ FinalEventDelivered(t, "generate") => s.draft_response # NoneVal
       /\ \A h \in {"submit", "save_draft"} :
            FinalEventDelivered(t, h) =>
              /\ s.current_email_id = NoneVal
              /\ s.draft_response = NoneVal

\* C23 (as claimed): IDLE is terminal -- in every session ever built, an
\* IDLE event is the last event of the session and current_state is IDLE
\* from then on, also when a command on the session was suspended at a
\* collaborator call or in a listener while end_session ran.
C23_IdleIsTerminal ==
  \A id \in DOMAIN sess :
    \A i \in 1..Len(States(id)) :
      States(id)[i] = IDLE =>
        /\ i = Len(States(id))
        /\ sess[id].current_state = IDLE

\* C24 (as claimed): no operation ends with an uncaught fault, whatever the
\* interleaving; an end_session call returns 'ended' with its id or the
\* error 'Session not found', also when it overlaps another end_session of
\* the same id.
C24_NoUncaughtFault ==
  \A t \in Tasks :
    task[t].pc = "done" =>
      /\ task[t].result.status # "fault"
      /\ task[t].op = "end" =>
           task[t].result \in
             {Result("ended", "", task[t].arg),
              Result("error", "Session not found", NoneVal)}

\* C25: when the collaborator of a command fails -- it raises, or login or
\* navigation answers with a failure, or the mail agent answers without the
\* expected record -- the command returns status error and the session's
\* browser handle is the one it had when the command was received, a handle
\* stored by an earlier login included.
C25_HandleKeptOnFailure ==
  \A t \in Tasks : \A h \in {"login", "inbox", "read_email", "generate",
                            "submit", "save_draft"} :
    (Returned(t, h) /\ task[t].ncalls = 1 /\ Fails(h, task[t].outcome)) =>
      /\ task[t].result.status = "error"
      /\ Last(States(task[t].sid)) = ERROR
      /\ sess[task[t].sid].browser_session_id = task[t].pre.browser_session_id

\* A second login was rejected on a session that held the handle of an
\* earlier login.
C25_Witness ==
  \E t \in Tasks :
    /\ Returned(t, "login")
    /\ task[t].outcome = "failure"
    /\ task[t].pre.browser_session_id # NoneVal
    /\ sess[task[t].sid].browser_session_id = task[t].pre.browser_session_id

\* Task t takes, in this step, the success answer of the collaborator of
\* its handler h, on session id.
SucceedsOn(t, h, id) ==
  /\ task[t].handler = h /\ task[t].sid = id
  /\ task[t].outcome = "none" /\ task'[t].outcome = "success"

\* C26: when a submit or save-draft command returns success, the session's
\* current email and draft are both unset; a step gives the draft a value
\* only when it is the success of a generate command on that session, and
\* gives the current email a value only when it is the success of a
\* read-email command on that session; a session is built with neither.
C26_EmailAndDraftLifecycle ==
  [][/\ \A t \in Tasks :
          (/\ task[t].pc # "done" /\ task'[t].pc = "done"
           /\ task'[t].op = "command"
           /\ task'[t].handler \in {"submit", "save_draft"}
           /\ task'[t].result.status = "success") =>
            /\ sess'[task'[t].sid].current_email_id = NoneVal
            /\ sess'[task'[t].sid].draft_response = NoneVal
     /\ \A id \in DOMAIN sess' :
          IF id \in DOMAIN sess
            THEN /\ (/\ sess'[id].draft_response # sess[id].draft_response
                     /\ sess'[id].draft_response # NoneVal) =>
                       \E t \in Tasks : SucceedsOn(t, "generate", id)
                 /\ (/\ sess'[id].current_email_id # sess[id].current_email_id
                     /\ sess'[id].current_email_id # NoneVal) =>
                       \E t \in Tasks : SucceedsOn(t, "read_email", id)
            ELSE /\ sess'[id].draft_response = NoneVal
                 /\ sess'[id].current_email_id = NoneVal]_vars

\* A save-draft command has returned success on a session that held an
\* email and a draft, and holds neither now.
C26_Witness ==
  \E t \in Tasks :
    /\ Returned(t, "save_draft")
    /\ task[t].result.status = "success"
    /\ task[t].pre.current_email_id # NoneVal
    /\ task[t].pre.draft_response # NoneVal
    /\ sess[task[t].sid].current_email_id = NoneVal
    /\ sess[task[t].sid].draft_response = NoneVal

\* C27: a registered session that holds a browser handle holds one after
\* every step, whichever handler takes the step and however it ends; and
\* the handle goes from unset to set only at the success of a login command
\* on that session.
C27_HandleNeverCleared ==
  [][\A id \in DOMAIN sess :
       /\ (Registered(id) /\ sess[id].browser_session_id # NoneVal) =>
            sess'[id].browser_session_id # NoneVal
       /\ (/\ sess[id].browser_session_id = NoneVal
           /\ sess'[id].browser_session_id # NoneVal) =>
            \E t \in Tasks : SucceedsOn(t, "login", id)]_vars

\* A navigation raised on a registered session that held a browser handle,
\* and the handle is still there.
C27_Witness ==
  \E t \in Tasks :
    /\ Returned(t, "inbox")
    /\ task[t].outcome = "raise"
    /\ Registered(task[t].sid)
    /\ task[t].pre.browser_session_id # NoneVal
    /\ sess[task[t].sid].browser_session_id # NoneVal

\* C28: in every step, every session built so far keeps its session_id and
\* its events, to which the step appends at most one event at the end; no
\* session object disappears, and a session built in the step carries its
\* own id.
C28_EventsAppendOnly ==
  [][/\ Len(sess') >= Len(sess)
     /\ \A id \in DOMAIN sess' : sess'[id].session_id = id
     /\ \A id \in DOMAIN sess :
          LET old == sess[id].events
              new == sess'[id].events
          IN /\ sess'[id].session_id = sess[id].session_id
             /\ \/ new = old
                \/ /\ Len(new) = Len(old) + 1
                   /\ SubSeq(new, 1, Len(old)) = old]_vars

\* Two callers have appended events to one session in turn: one command
\* has returned after three events of its own, with events of the other
\* caller's command among them in the session's list.
C28_Witness ==
  \E t \in Tasks, u \in Tasks :
    /\ t # u
    /\ task[t].op = "command" /\ task[t].pc = "done"
    /\ Len(task[t].mine) = 3
    /\ task[u].op = "command" /\ task[u].sid = task[t].sid
    /\ task[u].mine # <<>>
    /\ Len(sess[task[t].sid].events) > task[t].base + 3

\* Task t takes this step.
Acts(t) == task'[t] # task[t]

\* C29: a step changes a session (its state, browser handle, email, draft
\* or events) only when it is a step of a command dispatched to that session
\* or of end_session on that session, and removes a session from the
\* registry only when it is a step of end_session on that session; an
\* operation stays on the session it was given.  So an operation on session
\* A changes nothing of any other session B, however the operations on A
\* and B interleave.
C29_SessionsAreIndependent ==
  [][/\ \A id \in DOMAIN sess :
          sess'[id] # sess[id] =>
            \E t \in Tasks :
              /\ Acts(t)
              /\ task[t].sid = id
              /\ task[t].op \in {"command", "voice_command", "end"}
              /\ \A b \in DOMAIN sess : b # id => sess'[b] = sess[b]
     /\ \A id \in Range(sessions) :
          ~(id \in Range(sessions')) =>
            \E t \in Tasks :
              Acts(t) /\ task[t].op = "end" /\ task[t].sid = id
     /\ \A t \in Tasks :
          (task[t].sid # NoneVal /\ task'[t].pc # "idle") =>
            task'[t].sid = task[t].sid]_vars

\* While end_session of one session waits in a listener, still registered,
\* another caller's command has appended events to another session.
C29_Witness ==
  \E t \in Tasks, u \in Tasks :
    /\ task[t].op = "end" /\ task[t].found
    /\ task[t].pc \in {"notify", "end_del"}
    /\ Registered(task[t].sid)
    /\ task[u].op = "command"
    /\ task[u].sid \notin {NoneVal, task[t].sid}
    /\ Len(task[u].mine) >= 2

\* C30: an operation that appends an event enters the notification of that
\* event in the same step; while it is in the notification it appends no
\* event, sets no result and does not return; and it leaves the
\* notification, to go on where it stopped, only when every listener
\* registered by then has been invoked with the event, each once and in
\* order -- a coroutine listener having been awaited before the next step.
C30_NotificationBlocks ==
  [][\A t \in Tasks :
       /\ Len(task'[t].mine) > Len(task[t].mine) =>
            /\ Len(task'[t].mine) = Len(task[t].mine) + 1
            /\ task'[t].pc = "notify" /\ task'[t].ni = 1
            /\ task'[t].ev.sid = task'[t].sid
            /\ task'[t].ev.idx = Len(sess'[task'[t].sid].events)
            /\ Last(sess'[task'[t].sid].events).state = Last(task'[t].mine)
            /\ Deliveries(task'[t].ev.sid, task'[t].ev.idx) = <<>>
       /\ (task[t].pc = "notify" /\ task'[t].pc = "notify") =>
            /\ task'[t].mine = task[t].mine
            /\ task'[t].result = task[t].result
            /\ task'[t].ev = task[t].ev
       /\ (task[t].pc = "notify" /\ task'[t].pc # "notify") =>
            /\ task'[t].pc = task[t].ret
            /\ task'[t].pc # "done"
            /\ task'[t].mine = task[t].mine
            /\ Deliveries(task[t].ev.sid, task[t].ev.idx)
                 = UpTo(Len(event_listeners))
       /\ (task[t].pc # "done" /\ task'[t].pc = "done") =>
            task[t].pc # "notify"]_vars

\* A command has returned with a coroutine listener registered: each of the
\* three events it appended went to the listener before the next one.
C30_Witness ==
  \E t \in Tasks :
    /\ task[t].op = "command" /\ task[t].pc = "done"
    /\ event_listeners = <<"async">>
    /\ Len(task[t].mine) = 3
    /\ NewStates(t) = task[t].mine
    /\ \A i \in task[t].base + 1 .. Len(States(task[t].sid)) :
         Deliveries(task[t].sid, i) = <<1>>

\* C31 (as claimed): every call of submit_draft passes, as the reply text,
\* the draft that was generated for the email id it passes (the draft
\* generated for email e is written e), also after a read-email command has
\* changed the current email of a session that holds a draft.
C31_DraftMatchesEmail ==
  \A k \in 1..Len(calls) :
    calls[k].fn = "submit_draft" => calls[k].text = calls[k].email

\* C32 (as claimed): in every state, a session that holds a draft holds a
\* current email, also while a generate command and a submit command on the
\* session interleave at their suspension points.
C32_DraftImpliesEmail ==
  \A id \in DOMAIN sess :
    sess[id].draft_response # NoneVal => sess[id].current_email_id # NoneVal

\* Session s holds a current email whenever it holds a draft.
DraftHasEmail(s) ==
  s.draft_response # NoneVal => s.current_email_id # NoneVal

\* C32 (amended): a session that holds a draft holds a current email, but
\* for one interleaving: the only step after which a session holds a draft
\* and no current email is the success of a generate command whose
\* collaborator was called while the session held an email and answered
\* after a submit or save-draft on the same session had cleared it; a
\* session is built with neither field set.
C32_DraftWithoutEmailOnlyByRace ==
  [][\A id \in DOMAIN sess' :
       IF id \in DOMAIN sess
         THEN (DraftHasEmail(sess[id]) /\ ~DraftHasEmail(sess'[id])) =>
                \E t \in Tasks :
                  /\ SucceedsOn(t, "generate", id)
                  /\ sess[id].current_email_id = NoneVal
                  /\ calls[task[t].callix].fn = "process_email"
                  /\ calls[task[t].callix].email # NoneVal
                  /\ \E k \in 1..Len(calls) :
                       calls[k].fn = "submit_draft" /\ calls[k].sid = id
         ELSE DraftHasEmail(sess'[id])]_vars

\* A generate command was answered after an overlapping send had cleared
\* the session's fields: the session holds a draft and no current email.
C32_Witness ==
  \E t \in Tasks :
    /\ task[t].op = "command" /\ task[t].handler = "generate"
    /\ task[t].outcome = "success"
    /\ task[t].pre.current_email_id # NoneVal
    /\ sess[task[t].sid].draft_response # NoneVal
    /\ sess[task[t].sid].current_email_id = NoneVal

\* The successful logins of session id: each one appended the LISTENING
\* event of the login handler and stored a handle of its own.
LoginsServed(id) ==
  Cardinality({k \in 1..Len(sess[id].events) :
    sess[id].events[k] =
      WorkflowEvent(LISTENING,
        "Authentication successful, listening for next command")})
\* The handles of session id that the browser driver was asked to end.
HandlesEnded(id) ==
  {EndRequests(id)[i].handle : i \in 1..Len(EndRequests(id))}

\* C33 (as claimed): once end_session has removed a session, every browser
\* handle the session obtained by a successful login has been passed to the
\* browser driver's end action -- as many handles ended as logins served,
\* each login yielding a handle of its own.
C33_EveryHandleEnded ==
  \A id \in Ended :
    Cardinality(HandlesEnded(id)) >= LoginsServed(id)

\* C34: in every state, a session that holds a current email holds a
\* browser handle; and every call of the mail collaborator (process_email
\* to read or to generate, submit_draft) passes a browser handle, the one of
\* the session at that time or an earlier one of it.
C34_EmailImpliesHandle ==
  /\ \A id \in DOMAIN sess :
       sess[id].current_email_id # NoneVal =>
         sess[id].browser_session_id # NoneVal
  /\ \A k \in 1..Len(calls) :
       calls[k].fn \in {"process_email", "submit_draft"} =>
         /\ calls[k].handle # NoneVal
         /\ sess[calls[k].sid].browser_session_id # NoneVal

\* A send command, received by a session in ERROR, has called submit_draft
\* with the session's browser handle.
C34_Witness ==
  \E t \in Tasks :
    /\ task[t].op = "command" /\ task[t].handler = "submit"
    /\ task[t].pc = "submit_wait"
    /\ task[t].pre.current_state = ERROR
    /\ calls[task[t].callix].fn = "submit_draft"
    /\ calls[task[t].callix].handle = sess[task[t].sid].browser_session_id
    /\ calls[task[t].callix].handle # NoneVal

\* The states that the dispatch of task t's command has appended so far
\* (the LISTENING event of a session created for the command left out).
CommandStates(t) == IF task[t].fresh THEN Tail(task[t].mine) ELSE task[t].mine
Errors(seq) == Cardinality({i \in 1..Len(seq) : seq[i] = ERROR})

\* C35: a dispatched command has appended, when it returns, either two
\* events, PROCESSING_COMMAND and ERROR, with no collaborator call, or three,
\* PROCESSING_COMMAND, the in-progress state of its handler and one of
\* LISTENING, REVIEWING and ERROR, with one collaborator call; at no time
\* has it appended more than three events or two ERROR events or made two
\* collaborator calls -- also when commands of several callers interleave.
C35_TwoOrThreeEvents ==
  \A t \in Tasks :
    (task[t].op \in {"command", "voice_command"} /\ task[t].sid # NoneVal
       /\ task[t].result.status # "fault") =>
      LET cs == CommandStates(t)
      IN /\ Len(cs) <= 3
         /\ Errors(cs) <= 1
         /\ task[t].ncalls <= 1
         /\ (task[t].pc = "done" /\ task[t].handler # "none") =>
              /\ Len(cs) \in {2, 3}
              /\ cs[1] = PROCESSING_COMMAND
              /\ Len(cs) = 2 => (cs[2] = ERROR /\ task[t].ncalls = 0)
              /\ Len(cs) = 3 =>
                   /\ task[t].handler # "unknown"
                   /\ cs[2] = EntryState(task[t].handler)
                   /\ cs[3] \in {LISTENING, REVIEWING, ERROR}
                   /\ task[t].ncalls = 1

\* A navigation that raised has returned after three events, while another
\* caller's command on the same session had appended events of its own.
C35_Witness ==
  \E t \in Tasks, u \in Tasks :
    /\ t # u
    /\ task[t].op = "command" /\ task[t].pc = "done"
    /\ task[t].handler = "inbox" /\ task[t].outcome = "raise"
    /\ CommandStates(t) = <<PROCESSING_COMMAND, NAVIGATING, ERROR>>
    /\ task[u].op = "command" /\ task[u].sid = task[t].sid
    /\ task[u].mine # <<>>

\* C36: a submit or save-draft command whose call of submit_draft raised
\* returns status error with the session in ERROR and with the current
\* email and the draft it had when the command was received, both set; and
\* a submit or save-draft command passes to submit_draft the email and the
\* draft the session had when it was received, so the command that follows
\* a failed one submits the same draft for the same email.
C36_DraftKeptWhenSubmitRaises ==
  \A t \in Tasks : \A h \in {"submit", "save_draft"} :
    /\ (Returned(t, h) /\ task[t].outcome = "raise") =>
         /\ task[t].result.status = "error"
         /\ Last(States(task[t].sid)) = ERROR
         /\ sess[task[t].sid].current_email_id = task[t].pre.current_email_id
         /\ sess[task[t].sid].draft_response = task[t].pre.draft_response
         /\ sess[task[t].sid].current_email_id # NoneVal
         /\ sess[task[t].sid].draft_response # NoneVal
    /\ (task[t].op = "command" /\ task[t].handler = h
          /\ task[t].pc = "submit_wait") =>
         /\ calls[task[t].callix].fn = "submit_draft"
         /\ calls[task[t].callix].email = task[t].pre.current_email_id
         /\ calls[task[t].callix].text = task[t].pre.draft_response
         /\ calls[task[t].callix].send = (h = "submit")

\* After a send whose submit_draft raised, a second send has passed the
\* same email and the same draft to submit_draft.
C36_Witness ==
  \E t \in Tasks :
    /\ task[t].op = "command" /\ task[t].handler = "submit"
    /\ task[t].pc = "submit_wait"
    /\ task[t].pre.current_state = ERROR
    /\ task[t].callix >= 2
    /\ calls[task[t].callix - 1] = calls[task[t].callix]
    /\ Last(sess[task[t].sid].events).state = SUBMITTING
    /\ sess[task[t].sid].events[task[t].base].message
         = "Error submitting response"

\* C37 (as claimed): each listener is invoked with the events of a session
\* in the order in which they were appended to the session, also when two
\* operations on the session are in flight and the listeners are
\* coroutines.
C37_ListenerSeesAppendOrder ==
  \A j \in 1..Len(notified) : \A k \in 1..Len(notified) :
    (/\ j < k
     /\ notified[j].l = notified[k].l
     /\ notified[j].sid = notified[k].sid) =>
      notified[j].idx < notified[k].idx

\* The operations in flight on session id: a caller inside a command, a
\* voice event, create_session or end_session on it.
InFlight(id) ==
  {t \in Tasks : task[t].pc \notin {"idle", "done"} /\ task[t].sid = id}
AtRest(id) == Registered(id) /\ InFlight(id) = {}

\* C38: a registered session with no command and no end_session in flight
\* is in LISTENING, REVIEWING or ERROR, never in PROCESSING_COMMAND,
\* AUTHENTICATING, NAVIGATING, READING_EMAIL, GENERATING_RESPONSE, SUBMITTING
\* or IDLE.
C38_RestingStates ==
  \A id \in DOMAIN sess :
    AtRest(id) => sess[id].current_state \in {LISTENING, REVIEWING, ERROR}

\* A command has returned with an error on a session on which another
\* caller's command ran at the same time and returned before it; nothing is
\* in flight on the session any more.
C38_Witness ==
  \E t \in Tasks :
    /\ task[t].op = "command" /\ task[t].pc = "done"
    /\ AtRest(task[t].sid)
    /\ sess[task[t].sid].current_state = ERROR
    /\ nops = MaxOps
    /\ Len(sess[task[t].sid].events) > task[t].base + Len(task[t].mine)


\* C39: when a process_voice_command call finds no non-IDLE session, it
\* builds and registers one with no suspension in between (the call owns the
\* loop from the check to the registration), so a second call that starts
\* while the first is in flight and its session has not been ended builds no
\* session of its own and is dispatched to the session of the first: of the
\* two calls exactly one creates a session.
C39_OneSessionForBoth ==
  /\ \A t \in Tasks : task[t].pc = "create" => running = t
  /\ \A t \in Tasks : \A u \in Tasks \ {t} :
       (/\ task[t].op = "command" /\ task[t].fresh
        /\ task[u].op = "command" /\ task[u].pc # "create"
        /\ task[u].nsess0 > task[t].nsess0
        /\ task[t].sid \in Range(task[u].act0)) =>
         /\ task[t].act0 = <<>>
         /\ ~task[u].fresh
         /\ task[u].sid = task[t].sid
\* A call found no non-IDLE session and created one; a second call started
\* while the first was suspended and has been dispatched, and both are in
\* flight.
C39_Witness ==
  \E t \in Tasks : \E u \in Tasks \ {t} :
    /\ task[t].op = "command" /\ task[t].fresh /\ task[t].pc # "done"
    /\ task[u].op = "command" /\ task[u].nsess0 > task[t].nsess0
    /\ task[u].sid = task[t].sid
    /\ Len(task[u].mine) >= 2


\* The counters add up, and the stored response times are the last
\* MaxResponseTimes ones (all of them while there are fewer), oldest first.
MetricsConsistent ==
  LET n == Len(metrics.response_times)
  IN /\ metrics.requests_total =
          metrics.requests_success + metrics.requests_error
     /\ n <= MaxResponseTimes
     /\ n = IF metrics.requests_total < MaxResponseTimes
              THEN metrics.requests_total ELSE MaxResponseTimes
     /\ \A i \in 1..n :
          metrics.response_times[i] = metrics.requests_total - n + i

\* C40: after any sequence of record_request calls requests_total is
\* requests_success plus requests_error, response_times holds at most 100
\* entries, the most recent ones in arrival order, and last_error changes
\* only on a call with success false.
C40_RecordRequest ==
  /\ []MetricsConsistent
  /\ [][metrics'.last_error # metrics.last_error =>
          /\ metrics'.requests_error = metrics.requests_error + 1
          /\ metrics'.requests_success = metrics.requests_success]_vars
\* More than 100 requests were recorded, some succeeded, some failed, and the
\* oldest response times have been dropped.
C40_Witness ==
  /\ metrics.requests_total = MaxRequests
  /\ metrics.requests_success > 0
  /\ metrics.requests_error > 0
  /\ metrics.last_error = 1
  /\ metrics.last_error_time < metrics.requests_total
  /\ Len(metrics.response_times) = MaxResponseTimes
  /\ metrics.response_times[1] = MaxRequests - MaxResponseTimes + 1

====
